---- MODULE Spec2Model ----
(***************************************************************************)
(* html-components: reactive state store (stateSystem), template           *)
(* substitution (processTemplate), file cache (fileCache) and component    *)
(* loader (loadComponentIntoElement), as written in the enhanced library   *)
(* (src/unnamed/part_004) and the base library (src/html-components.js).   *)
(***************************************************************************)
EXTENDS Integers, Sequences, FiniteSets, TLC

VARIABLES
    states,             \* stateSystem.states: Map name -> value
    listeners,          \* stateSystem.listeners: Map name -> Set of callbacks (insertion order)
    computedDeps,       \* stateSystem.computedDeps: Map name -> deps array
    dataBindings,       \* element.dataset.bindings of the bindable elements
    elProp,             \* the bound DOM properties of the bindable elements
    bindCount,          \* number of updateElement closures created by bind
    fileCache,          \* fileCache: [enabled, cache: Map path -> content]
    loadingComponents,  \* the loading-guard Set of paths
    content,            \* innerHTML of the load targets
    componentLoaded,    \* data-component-loaded attribute of the load targets
    loads,              \* loads in flight: waiting for the fetch or for the nested loads
    nextId,             \* number of load calls made so far
    server,             \* the text the server holds for each path
    hooks,              \* lifecycleHooks.hooks: the keys "path:phase" with a callback
    warm,               \* ghost: path -> what the first load since the last clear or disable returned
    failed,             \* ghost: the paths whose last fetch failed with nothing cached for them
    inner,              \* innerHTML of the [data-component] element inside each load target
    resources,          \* nested stylesheets and scripts in flight
    cssLinks,           \* the hrefs of the link elements in the head
    jsLoaded,           \* the srcs of the data-loaded-js markers in the head
    cssFetches,         \* the stylesheet texts being fetched for the file cache
    sobs,               \* the script blocks evaluated for the top-level load that finished last
    pageCache,          \* pageCache: [enabled, cache: Map key -> markup]
    builds,             \* buildPage calls in flight: their key, target and definitions
    nextBuild,          \* number of buildPage calls made so far
    storedBy,           \* ghost: page cache key -> the definition and target of the build that stored it
    bobs,               \* the last page-builder step and what it did
    obs,                \* the last state-store call and what it did
    lobs,               \* the last loader step and what it did
    fnOf,               \* ghost: the compute function passed to computed(name, ...)
    elements,           \* the elements with a data-<event> attribute that are in the document
    attached,           \* element, event type -> the listeners addEventListener attached
    marked,             \* the <<element, event type>> with a data-bound_<event> marker
    snapshot,           \* the markers in the markup the page cache holds for the target
    window,             \* the global functions: name -> what a call of it does
    eobs,               \* the last event-binding step and what it did
    tobs                \* the last template expansion and what it returned

storeVars == <<states, listeners, computedDeps, dataBindings, elProp, bindCount,
               obs, fnOf>>
loaderVars == <<fileCache, loadingComponents, loads, nextId, server, hooks, warm,
                failed, lobs>>
domVars == <<content, componentLoaded>>
nestVars == <<inner, resources, cssLinks, jsLoaded, cssFetches, sobs>>
pageVars == <<pageCache, builds, nextBuild, storedBy, bobs>>
eventVars == <<elements, attached, marked, snapshot, window, eobs>>
miscVars == <<eventVars, tobs>>
vars == <<storeVars, loaderVars, domVars, nestVars, pageVars, miscVars>>

(***************************************************************************)
(* Bounds of the model.                                                    *)
(***************************************************************************)
MaxBinds == 1       \* bind calls per run
MaxSubs == 2        \* subscribers per name
MaxLoads == 2       \* load calls per run
MaxBuilds == 2      \* buildPage calls per run

(***************************************************************************)
(* JavaScript values: undefined, NaN and numbers.                          *)
(***************************************************************************)
Undefined == [t |-> "undefined", n |-> 0]
NaN == [t |-> "NaN", n |-> 0]
Num(k) == [t |-> "number", n |-> k]
InputVals == {Undefined, NaN, Num(1), Num(2)}   \* values passed to create and set
BindVals == {Undefined, NaN, Num(1)}            \* the same, on the page with bindings

\* a === b on these values: NaN is not identical to itself
StrictEqualsNever(a, b) == FALSE
StrictEquals(a, b) == a = b /\ a.t # "NaN"

Digits == <<"0", "1", "2", "3", "4", "5", "6", "7", "8", "9">>
NumStr(k) ==
    IF k < 10 THEN Digits[k + 1]
    ELSE Digits[((k \div 10) % 10) + 1] \o Digits[(k % 10) + 1]

\* arrays of such values, and false
Arr(items) == [t |-> "array", n |-> 0, items |-> items]
False == [t |-> "boolean", n |-> 0]
isArray(v) == v.t = "array"
\* the truthy values: arrays and the numbers other than 0
truthy(v) == v.t = "array" \/ (v.t = "number" /\ v.n # 0)

\* JSON.stringify of an array of numbers: NaN and undefined become null
RECURSIVE jsonItems(_)
jsonItems(items) ==
    IF items = <<>> THEN ""
    ELSE (IF Head(items).t = "number" THEN NumStr(Head(items).n) ELSE "null")
         \o (IF Tail(items) = <<>> THEN "" ELSE "," \o jsonItems(Tail(items)))
jsonArray(v) == "[" \o jsonItems(v.items) \o "]"

\* value == null ? '' : typeof value === 'object' ? JSON.stringify(value) : String(value)
stringValue(v) ==
    CASE v.t = "undefined" -> ""
      [] v.t = "NaN" -> "NaN"
      [] v.t = "array" -> jsonArray(v)
      [] v.t = "boolean" -> "false"
      [] OTHER -> NumStr(v.n)

\* String(value), the conversion of a value assigned to a DOMString
domString(v) ==
    CASE v.t = "undefined" -> "undefined"
      [] v.t = "NaN" -> "NaN"
      [] OTHER -> NumStr(v.n)

\* x => x * 2 and x => x + 2, the compute functions of the model
Fns == {"double", "plus2"}
Arg(values, i) == IF i <= Len(values) THEN values[i] ELSE Undefined
ApplyFn(fn, values) ==
    LET x == Arg(values, 1)
    IN IF x.t # "number" THEN NaN
       ELSE IF fn = "double" THEN Num(2 * x.n) ELSE Num(x.n + 2)

(***************************************************************************)
(* Maps (JavaScript Map): functions with a growing domain.                 *)
(***************************************************************************)
EmptyMap == <<>>
Put(m, k, v) == [x \in (DOMAIN m) \cup {k} |-> IF x = k THEN v ELSE m[x]]
Range(s) == {s[i] : i \in DOMAIN s}
Without(s, x) == SelectSeq(s, LAMBDA y : y # x)

(***************************************************************************)
(* Names, elements, callbacks.                                             *)
(***************************************************************************)
Names == {"a"}                      \* names passed to create, subscribe and bind
CompNames == {"c"}                  \* names passed to computed
AllNames == Names \cup CompNames    \* names passed to set
DepLists == {<<"a">>}

BElems == <<"#b1">>                 \* the bindable elements, in document order
Selectors == Range(BElems) \cup {"#missing"}
Properties == {"textContent", "innerHTML", "attr:title", "style:opacity", "class"}

Targets == {"#t1", "#t2"}           \* the load targets
Paths == {"p1", "p2"}

\* callbacks: a recorder, one that throws, one that calls set(el, 1) itself,
\* and the updateElement closures made by bind
Cb(kind, el, prop, id) == [kind |-> kind, el |-> el, prop |-> prop, id |-> id]
NoCb == Cb("none", "", "", 0)
Recorder == Cb("rec", "", "", 0)
Thrower == Cb("throw", "", "", 0)
Setter(name) == Cb("setter", name, "", 0)
UserCallbacks == {Recorder, Thrower, Setter("a")}
SetterValue == Num(1)

(***************************************************************************)
(* Templates and markup: sequences of text chunks and {{key}} placeholders.*)
(***************************************************************************)
Text(s) == [k |-> "text", s |-> s]
Var(key) == [k |-> "var", s |-> key]
Comp(path) == [k |-> "comp", s |-> path]      \* <div data-component="path"></div>
Script(text) == [k |-> "script", s |-> text]  \* <script>text</script>
Css(href) == [k |-> "css", s |-> href]        \* <div data-css="href"></div>
Js(src) == [k |-> "js", s |-> src]            \* <div data-js="src"></div>


\* the markup as one string would have it: adjacent text chunks are one chunk
Join(out, tok) ==
    IF tok.k = "text" /\ out # <<>> /\ out[Len(out)].k = "text"
    THEN [out EXCEPT ![Len(out)] = Text(@.s \o tok.s)]
    ELSE Append(out, tok)

\* const context = { ...props, ...state }
Context(props, state) ==
    [k \in (DOMAIN props) \cup (DOMAIN state) |->
        IF k \in DOMAIN state THEN state[k] ELSE props[k]]

\* the variable pass: every {{key}} whose key is in the context becomes the
\* value's string form, the others stay as they are
RECURSIVE substitute(_, _, _)
substitute(template, context, out) ==
    IF template = <<>> THEN out
    ELSE LET tok == Head(template)
             rest == Tail(template)
         IN IF tok.k = "var" /\ tok.s \in DOMAIN context
            THEN LET sv == stringValue(context[tok.s])
                 IN substitute(rest, context,
                               IF sv = "" THEN out ELSE Join(out, Text(sv)))
            ELSE substitute(rest, context, Join(out, tok))

processTemplate(template, props, state) ==
    substitute(template, Context(props, state), <<>>)

\* new RegExp(`\\{\\{\\s*${key}\\s*\\}\\}`, 'g') throws a SyntaxError for a key
\* that is no pattern, such as "*": processTemplate throws before it returns
BadKey == "*"
templateThrows(props, state) == BadKey \in DOMAIN Context(props, state)

(***************************************************************************)
(* The template engine with conditional and loop blocks.  A template is    *)
(* the sequence of its text chunks, placeholders and block delimiters; a   *)
(* pass works on that sequence from left to right as the regular           *)
(* expression does on the string.                                          *)
(***************************************************************************)
IfOpen(expr) == [k |-> "if", s |-> expr]                       \* {{if expr}}
IfClose == [k |-> "/if", s |-> ""]                             \* {{/if}}
EachOpen(expr, itemName) == [k |-> "each", s |-> expr, item |-> itemName]  \* {{each expr as itemName}}
EachClose == [k |-> "/each", s |-> ""]                         \* {{/each}}

RECURSIVE JoinAll(_, _)
JoinAll(out, toks) ==
    IF toks = <<>> THEN out ELSE JoinAll(Join(out, Head(toks)), Tail(toks))

\* the first delimiter of the kind at or after a position, 0 when none
RECURSIVE indexOf(_, _, _)
indexOf(template, kind, from) ==
    IF from > Len(template) THEN 0
    ELSE IF template[from].k = kind THEN from
    ELSE indexOf(template, kind, from + 1)

\* evaluateExpression(expr, context): new Function(keys, "return " + expr)
\* called with the values; a key that is no parameter name or a name that
\* is not defined throws, and false is returned
evaluateExpression(expr, context) ==
    IF BadKey \in DOMAIN context THEN False
    ELSE IF expr \in DOMAIN context THEN context[expr]
    ELSE False

\* the conditional pass
RECURSIVE conditionals(_, _, _, _)
conditionals(template, context, i, out) ==
    IF i > Len(template) THEN out
    ELSE IF template[i].k = "if" /\ indexOf(template, "/if", i + 1) # 0
    THEN LET j == indexOf(template, "/if", i + 1)
         IN conditionals(template, context, j + 1,
                         IF truthy(evaluateExpression(template[i].s, context))
                         THEN JoinAll(out, SubSeq(template, i + 1, j - 1))
                         ELSE out)
    ELSE conditionals(template, context, i + 1, Join(out, template[i]))

\* const itemContext = { ...context, [itemName]: item, index, $item: item }
itemContextUnbound(context, itemName, item, index) == context
itemContext(context, itemName, item, index) ==
    [k \in (DOMAIN context) \cup {itemName, "index", "$item"} |->
        CASE k = "$item" -> item
          [] k = "index" -> Num(index)
          [] k = itemName -> item
          [] OTHER -> context[k]]

Expanded(threw, out) == [threw |-> threw, out |-> out]

\* the keys whose pattern can match a placeholder: in the pattern of the
\* key $item the $ is the end-of-input assertion
Matchable(context) == [k \in DOMAIN context \ {"$item"} |-> context[k]]

RECURSIVE processTemplateEnhanced(_, _, _)
\* array.map((item, index) => processTemplate(content, itemContext, {})).join('')
RECURSIVE mapItems(_, _, _, _, _, _)
mapItems(body, context, itemName, items, index, R) ==
    IF index >= Len(items) \/ R.threw THEN R
    ELSE LET one == processTemplateEnhanced(
                        body, itemContext(context, itemName, items[index + 1], index),
                        EmptyMap)
         IN mapItems(body, context, itemName, items, index + 1,
                     Expanded(one.threw, JoinAll(R.out, one.out)))

\* the loop pass: an exception of an iteration is caught and the block
\* becomes ''
RECURSIVE loops(_, _, _, _)
loops(template, context, i, out) ==
    IF i > Len(template) THEN out
    ELSE IF template[i].k = "each" /\ indexOf(template, "/each", i + 1) # 0
    THEN LET j == indexOf(template, "/each", i + 1)
             array == evaluateExpression(template[i].s, context)
             R == IF isArray(array)
                  THEN mapItems(SubSeq(template, i + 1, j - 1), context,
                                template[i].item, array.items, 0, Expanded(FALSE, <<>>))
                  ELSE Expanded(FALSE, <<>>)
         IN loops(template, context, j + 1,
                  IF R.threw THEN out ELSE JoinAll(out, R.out))
    ELSE loops(template, context, i + 1, Join(out, template[i]))

\* processTemplate(template, props, state) of the enhanced library: the
\* conditional pass, the loop pass, the variable pass
processTemplateEnhanced(template, props, state) ==
    LET context == Context(props, state)
        result == loops(conditionals(template, context, 1, <<>>), context, 1, <<>>)
    IN IF templateThrows(props, state) THEN Expanded(TRUE, <<>>)
       ELSE Expanded(FALSE, substitute(result, Matchable(context), <<>>))

Tobs(step, template, props, state, threw, result) ==
    [step |-> step, template |-> template, props |-> props, state |-> state,
     threw |-> threw, result |-> result]
NoTobs == Tobs("", <<>>, EmptyMap, EmptyMap, FALSE, <<>>)

\* HTMLComponents.processTemplate(template, props, state)
Expand(template, props, state) ==
    /\ LET R == processTemplateEnhanced(template, props, state)
       IN tobs' = Tobs("expand", template, props, state, R.threw, R.out)
    /\ UNCHANGED <<storeVars, loaderVars, domVars, nestVars, pageVars, eventVars>>


(***************************************************************************)
(* stateSystem.  A call works on S, the part of the page that set can      *)
(* change, and the log of what it did.                                     *)
(***************************************************************************)
get(st, name) == IF name \in DOMAIN st THEN st[name] ELSE Undefined

Store(st, ep, ct) == [states |-> st, elProp |-> ep, content |-> ct,
                      calls |-> <<>>, threw |-> FALSE]

\* what the property holds after the assignment of value: textContent is a
\* nullable DOMString (undefined empties it), the style declaration takes a
\* number and ignores what is no number, the others take String(value)
assigned(property, value, current) ==
    CASE property = "textContent" ->
            IF value.t = "undefined" THEN "" ELSE domString(value)
      [] property = "style:opacity" ->
            IF value.t = "number" THEN domString(value) ELSE current
      [] OTHER -> domString(value)

\* updateElement of bind: the assignment made for each binding kind; the
\* text of the element is both its textContent and its innerHTML
updateElement(ep, el, property, value) ==
    LET s == assigned(property, value, ep[el][property])
    IN IF property \in {"textContent", "innerHTML"}
       THEN [ep EXCEPT ![el] = [@ EXCEPT !["textContent"] = s, !["innerHTML"] = s]]
       ELSE [ep EXCEPT ![el] = [@ EXCEPT ![property] = s]]

\* updateComputed(name, computeFn): the function is kept nowhere, so a call
\* without computeFn (the one set makes) finds none and stores nothing
updateComputed(st, deps, name, computeFn) ==
    IF name \notin DOMAIN deps THEN st
    ELSE LET values == [i \in DOMAIN deps[name] |-> get(st, deps[name][i])]
         IN IF computeFn \in Fns
            THEN Put(st, name, ApplyFn(computeFn, values))
            ELSE st

\* this.computedDeps.forEach(...) of set: updateComputed(compName) for every
\* computed entry whose deps include name
RECURSIVE recompute(_, _, _)
recompute(st, name, todo) ==
    IF todo = {} THEN st
    ELSE LET c == CHOOSE x \in todo : TRUE
             st1 == IF name \in Range(computedDeps[c])
                    THEN updateComputed(st, computedDeps, c, "undefined")
                    ELSE st
         IN recompute(st1, name, todo \ {c})

\* the bindings of all elements, in document order
RECURSIVE allBindings(_)
allBindings(i) ==
    IF i > Len(BElems) THEN <<>>
    ELSE [j \in DOMAIN dataBindings[BElems[i]] |->
             [el |-> BElems[i], state |-> dataBindings[BElems[i]][j].state,
              property |-> dataBindings[BElems[i]][j].property]]
         \o allBindings(i + 1)

\* updateBoundElements: the attr: and style: branches read `property`, which
\* is not declared there: a ReferenceError leaves the loop and set
RECURSIVE updateBoundElements(_, _, _, _)
updateBoundElements(S, bs, stateName, value) ==
    IF bs = <<>> THEN S
    ELSE LET b == Head(bs)
         IN IF b.state # stateName
            THEN updateBoundElements(S, Tail(bs), stateName, value)
            ELSE IF b.property \in {"textContent", "innerHTML", "class"}
            THEN updateBoundElements(
                     [S EXCEPT !.elProp = updateElement(@, b.el, b.property, value)],
                     Tail(bs), stateName, value)
            ELSE [S EXCEPT !.threw = TRUE]

\* updateComponentTemplates for every [data-component-loaded] element: the
\* text that still holds {{...}} is expanded again with all the state
updateComponentTemplates(S) ==
    [S EXCEPT !.content =
        [t \in Targets |->
            IF componentLoaded[t] # ""
            THEN processTemplate(S.content[t], EmptyMap, S.states)
            ELSE S.content[t]]]

RECURSIVE set(_, _, _)
RECURSIVE notify(_, _, _, _, _)
RECURSIVE invoke(_, _, _)

\* callback(value, oldValue), for each kind of callback
invoke(S, cb, value) ==
    CASE cb.kind = "upd" ->
            [S EXCEPT !.elProp = updateElement(@, cb.el, cb.prop, value)]
      [] cb.kind = "setter" -> set(S, cb.el, SetterValue)
      [] cb.kind = "throw" -> [S EXCEPT !.threw = TRUE]
      [] OTHER -> S

\* listeners.forEach(callback => { try { callback(value, oldValue) } catch ... })
notify(S, ls, name, value, oldValue) ==
    IF ls = <<>> THEN S
    ELSE LET call == [name |-> name, cb |-> Head(ls), new |-> value, old |-> oldValue]
             S1 == invoke([S EXCEPT !.calls = Append(@, call)], Head(ls), value)
         IN notify([S1 EXCEPT !.threw = FALSE], Tail(ls), name, value, oldValue)

set(S, name, value) ==
    LET oldValue == get(S.states, name)
    IN IF StrictEquals(oldValue, value) THEN S
       ELSE LET S1 == [S EXCEPT !.states = Put(@, name, value)]
                S2 == IF name \in DOMAIN listeners
                      THEN notify(S1, listeners[name], name, value, oldValue)
                      ELSE S1
                S3 == [S2 EXCEPT !.states = recompute(@, name, DOMAIN computedDeps)]
                S4 == updateBoundElements(S3, allBindings(1), name, value)
            IN IF S4.threw THEN S4 ELSE updateComponentTemplates(S4)


(***************************************************************************)
(* The calls of the state store.  obs records the call and what it did.    *)
(***************************************************************************)
\* the call, its arguments, the value and the subscribers the name had
\* before it, the callbacks it invoked and whether it threw
Obs(op, name, value, cb, el, prop, calls, threw) ==
    [op |-> op, name |-> name, value |-> value, cb |-> cb, el |-> el, prop |-> prop,
     old |-> get(states, name),
     subs |-> IF name \in DOMAIN listeners THEN listeners[name] ELSE <<>>,
     calls |-> calls, threw |-> threw]
NoObs == [op |-> "none", name |-> "", value |-> Undefined, cb |-> NoCb, el |-> "",
          prop |-> "", old |-> Undefined, subs |-> <<>>, calls |-> <<>>,
          threw |-> FALSE]

\* create(name, initialValue)
createKeepListeners(ls, name) ==
    IF name \in DOMAIN ls THEN ls ELSE Put(ls, name, <<>>)
createListeners(ls, name) == Put(ls, name, <<>>)

Create(name, initialValue) ==
    /\ states' = Put(states, name, initialValue)
    /\ listeners' = createListeners(listeners, name)
    /\ obs' = Obs("create", name, initialValue, NoCb, "", "", <<>>, FALSE)
    /\ UNCHANGED <<computedDeps, dataBindings, elProp, bindCount, fnOf>>
    /\ UNCHANGED <<loaderVars, domVars, nestVars, pageVars>>
    /\ UNCHANGED miscVars

\* set(name, value)
Set(name, value) ==
    LET S == set(Store(states, elProp, content), name, value)
    IN /\ states' = S.states
       /\ elProp' = S.elProp
       /\ content' = S.content
       /\ obs' = Obs("set", name, value, NoCb, "", "", S.calls, S.threw)
       /\ UNCHANGED <<listeners, computedDeps, dataBindings, bindCount, fnOf>>
       /\ UNCHANGED <<loaderVars, componentLoaded, nestVars, pageVars>>
       /\ UNCHANGED miscVars

\* subscribe(name, callback): listeners is a Set, a callback is in it once
subscribeToArray(ls, name, callback) ==
    IF name \in DOMAIN ls THEN [ls EXCEPT ![name] = Append(@, callback)] ELSE ls
subscribeTo(ls, name, callback) ==
    IF name \in DOMAIN ls /\ callback \notin Range(ls[name])
    THEN [ls EXCEPT ![name] = Append(@, callback)]
    ELSE ls

Subscribe(name, callback) ==
    /\ name \in DOMAIN listeners => Len(listeners[name]) < MaxSubs
    /\ listeners' = subscribeTo(listeners, name, callback)
    /\ obs' = Obs("subscribe", name, Undefined, callback, "", "", <<>>, FALSE)
    /\ UNCHANGED <<states, computedDeps, dataBindings, elProp, bindCount, fnOf>>
    /\ UNCHANGED <<loaderVars, domVars, nestVars, pageVars>>
    /\ UNCHANGED miscVars

\* unsubscribe(name, callback)
Unsubscribe(name, callback) ==
    /\ listeners' = IF name \in DOMAIN listeners
                    THEN [listeners EXCEPT ![name] = Without(@, callback)]
                    ELSE listeners
    /\ obs' = Obs("unsubscribe", name, Undefined, callback, "", "", <<>>, FALSE)
    /\ UNCHANGED <<states, computedDeps, dataBindings, elProp, bindCount, fnOf>>
    /\ UNCHANGED <<loaderVars, domVars, nestVars, pageVars>>
    /\ UNCHANGED miscVars

\* computed(name, deps, computeFn)
Computed(name, deps, computeFn) ==
    /\ computedDeps' = Put(computedDeps, name, deps)
    /\ states' = updateComputed(states, computedDeps', name, computeFn)
    /\ fnOf' = Put(fnOf, name, computeFn)
    /\ obs' = Obs("computed", name, Undefined, NoCb, "", "", <<>>, FALSE)
    /\ UNCHANGED <<listeners, dataBindings, elProp, bindCount>>
    /\ UNCHANGED <<loaderVars, domVars, nestVars, pageVars>>
    /\ UNCHANGED miscVars

\* bind(selector, stateName, property)
Bind(selector, stateName, property) ==
    /\ bindCount < MaxBinds
    /\ obs' = Obs("bind", stateName, Undefined, NoCb, selector, property, <<>>, FALSE)
    /\ IF selector \notin Range(BElems)
       THEN \* document.querySelector(selector) is null: return
            UNCHANGED <<elProp, listeners, dataBindings, bindCount>>
       ELSE /\ bindCount' = bindCount + 1
            /\ elProp' = updateElement(elProp, selector, property,
                                       get(states, stateName))
            /\ listeners' = subscribeTo(listeners, stateName,
                                Cb("upd", selector, property, bindCount + 1))
            /\ dataBindings' = [dataBindings EXCEPT ![selector] =
                                   Append(@, [state |-> stateName, property |-> property])]
    /\ UNCHANGED <<states, computedDeps, fnOf>>
    /\ UNCHANGED <<loaderVars, domVars, nestVars, pageVars>>
    /\ UNCHANGED miscVars


(***************************************************************************)
(* fileCache.                                                              *)
(***************************************************************************)
\* fileCache.set(key, content)
fileCacheSet(fc, key, html) ==
    IF fc.enabled THEN [fc EXCEPT !.cache = Put(@, key, html)] ELSE fc

\* fileCache.get(key) returned something the loader takes for a hit:
\* `if (cachedContent)` is false for null and for the empty string
fileCacheHit(fc, key) ==
    fc.enabled /\ key \in DOMAIN fc.cache /\ fc.cache[key] # <<>>

(***************************************************************************)
(* lifecycleHooks and the component loader.  The markup of the model holds *)
(* no data-component, data-css, data-js, script or event attribute, so     *)
(* loadNestedComponents has nothing to start, and bindEventHandlers and    *)
(* executeScripts find nothing.                                            *)
(***************************************************************************)
Phases == {"beforeLoad", "afterLoad", "onError"}

\* lifecycleHooks.trigger(componentPath, hookName, ...): the callbacks under
\* the key `${componentPath}:${hookName}`, each in a try/catch
trigger(componentPath, hookName) ==
    IF <<componentPath, hookName>> \in hooks
    THEN <<[path |-> componentPath, phase |-> hookName]>>
    ELSE <<>>

\* the inline error block written into the element by the catch handler
ErrorFragment(componentPath, message) ==
    <<Text("Component Load Error: " \o componentPath \o " " \o message)>>

\* the answers of fetch: a text with status 200, a non-success status, or a
\* rejected fetch
Responses == {"ok", "404", "network"}
ErrorMessageNoStatus(r) == "Failed to fetch"
ErrorMessage(r) ==
    CASE r = "404" -> "HTTP 404: Not Found"
      [] r = "network" -> "Failed to fetch"
      [] OTHER -> "Invalid regular expression"
\* the Error a load rejects with: what failed, and its message
Err(r) == [k |-> r, s |-> ErrorMessage(r)]

\* the last step of the loader: the call or continuation, the load it
\* belongs to, how the promise stands after it (pending, fulfilled, rejected),
\* the value it fulfilled with, and what the step did
Lobs(step, id, path, target, promise, value, fetched, hit, fired, wasWarm) ==
    [step |-> step, id |-> id, path |-> path, target |-> target, promise |-> promise,
     value |-> value, fetched |-> fetched, hit |-> hit, fired |-> fired,
     wasWarm |-> wasWarm]
NoLobs == Lobs("none", 0, "", "", "none", <<>>, FALSE, FALSE, <<>>, FALSE)
CacheCall(step) == Lobs(step, 0, "", "", "none", <<>>, FALSE, FALSE, <<>>, FALSE)

EnableFileCache ==
    /\ fileCache' = [fileCache EXCEPT !.enabled = TRUE]
    /\ failed' = {}
    /\ lobs' = CacheCall("enableFileCache")
    /\ UNCHANGED <<loadingComponents, loads, nextId, server, hooks, warm>>
    /\ UNCHANGED <<storeVars, domVars, nestVars, pageVars>>
    /\ UNCHANGED miscVars

DisableFileCache ==
    /\ fileCache' = [fileCache EXCEPT !.enabled = FALSE]
    /\ warm' = EmptyMap
    /\ lobs' = CacheCall("disableFileCache")
    /\ UNCHANGED <<loadingComponents, loads, nextId, server, hooks, failed>>
    /\ UNCHANGED <<storeVars, domVars, nestVars, pageVars>>
    /\ UNCHANGED miscVars

ClearFileCache ==
    /\ fileCache' = [fileCache EXCEPT !.cache = EmptyMap]
    /\ warm' = EmptyMap
    /\ lobs' = CacheCall("clearFileCache")
    /\ UNCHANGED <<loadingComponents, loads, nextId, server, hooks, failed>>
    /\ UNCHANGED <<storeVars, domVars, nestVars, pageVars>>
    /\ UNCHANGED miscVars

\* loadingComponents.has(componentPath)
guardNever(guard, componentPath) == FALSE
guardHas(guard, componentPath) == componentPath \in guard

\* document.querySelector(selector) finds an element
matchesAlways(selector) == TRUE
matches(selector) == selector \in Targets

\* an element a load writes into: a load target, or the [data-component]
\* element inside the markup of a target (detached once that markup is gone)
El(t, nested, detached) == [t |-> t, nested |-> nested, detached |-> detached]
elementOf(l) == El(l.target, l.nested, l.detached)

\* what one loader step works on and what it did: the guard set, the loads
\* and nested resources in flight, the markup of the targets and of their
\* nested elements, the link elements; the hooks it fired, the script blocks
\* it evaluated, and how the outermost call ended
LS(guard, ls, ct, inn, res, links) ==
    [guard |-> guard, loads |-> ls, content |-> ct, inner |-> inn, resources |-> res,
     links |-> links, fired |-> <<>>, ran |-> <<>>,
     promise |-> "none", fetched |-> FALSE, hit |-> FALSE]

\* element.innerHTML = html: the elements that were inside are gone, with
\* them the element a nested load in flight would write into
writeIntoTarget(L, el, html) ==
    [L EXCEPT !.content = [@ EXCEPT ![el.t] = html],
              !.inner = [@ EXCEPT ![el.t] = <<>>]]
write(L, el, html) ==
    IF ~el.nested
    THEN [L EXCEPT !.content = [@ EXCEPT ![el.t] = html],
                   !.inner = [@ EXCEPT ![el.t] = <<>>],
                   !.loads = [x \in DOMAIN @ |->
                                 IF @[x].nested /\ @[x].target = el.t
                                 THEN [@[x] EXCEPT !.detached = TRUE] ELSE @[x]]]
    ELSE IF ~el.detached
    THEN [L EXCEPT !.inner = [@ EXCEPT ![el.t] = html]]
    ELSE L

\* container.querySelectorAll('script'), in document order: the inline
\* script blocks of the markup and of the element nested in it
RECURSIVE scriptsIn(_, _)
scriptsIn(tokens, nestedTokens) ==
    IF tokens = <<>> THEN <<>>
    ELSE LET tok == Head(tokens)
             here == CASE tok.k = "script" -> <<tok.s>>
                       [] tok.k = "comp" -> scriptsIn(nestedTokens, <<>>)
                       [] OTHER -> <<>>
         IN here \o scriptsIn(Tail(tokens), nestedTokens)

\* executeScripts(element): every inline script block found is evaluated
executeScripts(L, el, html) ==
    IF ~el.nested THEN scriptsIn(L.content[el.t], L.inner[el.t])
    ELSE IF ~el.detached THEN scriptsIn(L.inner[el.t], <<>>)
    ELSE scriptsIn(html, <<>>)

\* loadCSS(href), up to the point where it waits for the link to load
loadCSS(L, owner, href) ==
    IF href \in L.links THEN L
    ELSE IF fileCacheHit(fileCache, href) THEN L
    ELSE [L EXCEPT !.links = @ \cup {href},
                   !.resources = @ \cup {[owner |-> owner, kind |-> "css", path |-> href]}]

\* HTMLComponents.loadJS(src), up to the fetch
loadJS(L, owner, src) ==
    IF src \in jsLoaded THEN L
    ELSE [L EXCEPT !.resources = @ \cup {[owner |-> owner, kind |-> "js", path |-> src]}]

RECURSIVE loadNestedCSS(_, _, _)
loadNestedCSS(L, owner, tokens) ==
    IF tokens = <<>> THEN L
    ELSE loadNestedCSS(IF Head(tokens).k = "css" THEN loadCSS(L, owner, Head(tokens).s) ELSE L,
                       owner, Tail(tokens))

RECURSIVE loadNestedJS(_, _, _)
loadNestedJS(L, owner, tokens) ==
    IF tokens = <<>> THEN L
    ELSE loadNestedJS(IF Head(tokens).k = "js" THEN loadJS(L, owner, Head(tokens).s) ELSE L,
                      owner, Tail(tokens))

\* the definition of a buildPage call a load was started for: build b,
\* definition i, child c of it (0 for the definition itself)
Owner(b, i, c) == [b |-> b, i |-> i, c |-> c]
NoOwner == Owner(0, 0, 0)

Load(target, path, props, phase, html) ==
    [target |-> target, path |-> path, props |-> props, phase |-> phase, html |-> html,
     nested |-> FALSE, detached |-> FALSE, parent |-> 0, cached |-> FALSE, ran |-> <<>>,
     owner |-> NoOwner]

RECURSIVE loadComponentIntoElement(_, _, _, _, _, _)
RECURSIVE loadNestedLoads(_, _, _, _)
RECURSIVE loadNestedComponents(_, _, _, _)

\* the [data-component] elements of the markup just written into target t
\* by load id: each starts a load of its own (the markup of the model holds
\* at most one, so the nested load is known by -id)
loadNestedLoads(L, id, t, tokens) ==
    IF tokens = <<>> THEN L
    ELSE LET L1 == IF Head(tokens).k = "comp"
                   THEN loadComponentIntoElement(L, -id, El(t, TRUE, FALSE),
                                                 Head(tokens).s, EmptyMap, id)
                   ELSE L
         IN loadNestedLoads(L1, id, t, Tail(tokens))

\* loadNestedComponents(element): the stylesheets, then the scripts, then the
\* components named in the markup of the element, all started at once
loadNestedComponents(L, id, el, html) ==
    LET tokens == IF el.nested THEN html ELSE L.content[el.t]
        L1 == loadNestedCSS(L, id, tokens)
        L2 == loadNestedJS(L1, id, tokens)
    IN IF el.nested THEN L2 ELSE loadNestedLoads(L2, id, el.t, tokens)

\* loadComponentIntoElement(element, componentPath, props), up to the point
\* where it waits for the fetch or for the nested loads
loadComponentIntoElement(L, id, el, path, props, parent) ==
    IF guardHas(L.guard, path)
    THEN \* already loading: return Promise.resolve()
         [L EXCEPT !.promise = "fulfilled", !.fetched = FALSE, !.hit = FALSE]
    ELSE LET L1 == [L EXCEPT !.guard = @ \cup {path},
                             !.fired = @ \o trigger(path, "beforeLoad")]
             rec == [Load(el.t, path, props, "fetch", <<>>) EXCEPT
                        !.nested = el.nested, !.parent = parent]
         IN IF fileCacheHit(fileCache, path) /\ templateThrows(props, EmptyMap)
            THEN \* cached, and processTemplate throws out of the call
                 [L1 EXCEPT !.promise = "threw", !.fetched = FALSE, !.hit = TRUE]
            ELSE IF fileCacheHit(fileCache, path)
            THEN \* cached: write, evaluate the scripts, start the nested loads
                 LET cachedContent == fileCache.cache[path]
                     html == processTemplate(cachedContent, props, EmptyMap)
                     L2 == write(L1, el, html)
                     L3 == [L2 EXCEPT !.ran = @ \o executeScripts(L2, el, html),
                                      !.loads = Put(@, id,
                                          [rec EXCEPT !.phase = "nested",
                                                      !.html = cachedContent,
                                                      !.cached = TRUE])]
                     L4 == loadNestedComponents(L3, id, el, html)
                 IN [L4 EXCEPT !.promise = "pending", !.fetched = FALSE, !.hit = TRUE]
            ELSE \* fetch(componentPath)
                 [L1 EXCEPT !.loads = Put(@, id, rec),
                            !.promise = "pending", !.fetched = TRUE, !.hit = FALSE]

\* what the promise of a load means for the definition it was started for:
\* its markup is committed, it is rejected, or it is fulfilled and the
\* callback that processes the children is queued (promise.then)
settled(bs, owner, how) ==
    IF owner.b \notin DOMAIN bs \/ owner.c # 0 THEN bs
    ELSE LET slot == bs[owner.b].slots[owner.i]
         IN [bs EXCEPT ![owner.b].slots[owner.i] =
                CASE how = "committed" -> [slot EXCEPT !.committed = TRUE]
                  [] how = "rejected" -> [slot EXCEPT !.state = "rejected"]
                  [] OTHER -> [slot EXCEPT !.state = IF slot.children = <<>>
                                                    THEN "fulfilled" ELSE "then"]]

\* the loader state before a step
Before == LS(loadingComponents, loads, content, inner, resources, cssLinks)

\* the top-level load a load belongs to
rootOf(ls, id) == IF id \in DOMAIN ls /\ ls[id].parent # 0 THEN ls[id].parent ELSE id

\* the loader state after a step that worked for the top-level load root:
\* the script blocks it evaluated are counted for that load
After(L, root) ==
    /\ loadingComponents' = L.guard
    /\ content' = L.content
    /\ inner' = L.inner
    /\ resources' = L.resources
    /\ cssLinks' = L.links
    /\ loads' = [x \in DOMAIN L.loads |->
                    IF x = root THEN [L.loads[x] EXCEPT !.ran = @ \o L.ran]
                    ELSE L.loads[x]]

\* HTMLComponents.loadComponent(selector, path, props)
LoadComponent(selector, path, props) ==
    /\ nextId < MaxLoads
    /\ nextId' = nextId + 1
    /\ UNCHANGED <<fileCache, server, hooks, warm, failed, componentLoaded>>
    /\ UNCHANGED <<jsLoaded, cssFetches, sobs>>
    /\ UNCHANGED <<storeVars, pageVars>>
    /\ IF ~matches(selector)
       THEN \* Promise.reject(new Error('Element not found'))
            /\ lobs' = Lobs("call", nextId', path, selector, "rejected", <<>>,
                            FALSE, FALSE, <<>>, path \in DOMAIN warm)
            /\ After(Before, nextId')
       ELSE LET L == loadComponentIntoElement(Before, nextId', El(selector, FALSE, FALSE),
                                              path, props, 0)
            IN /\ After(L, nextId')
               /\ lobs' = Lobs("call", nextId', path, selector, L.promise, <<>>,
                               L.fetched, L.hit, L.fired, path \in DOMAIN warm)
    /\ UNCHANGED miscVars

\* what the fetch handler stores in the file cache and writes: the text
\* after html = processTemplate(html, props, state)
cachedText(raw, props) == processTemplate(raw, props, EmptyMap)

\* the fetch of load id settles: the .then handlers on success, the .catch
\* handler otherwise
FetchSettles(id, r) ==
    /\ id \in DOMAIN loads
    /\ loads[id].phase = "fetch"
    /\ LET l == loads[id]
           el == elementOf(l)
           html == cachedText(server[l.path], l.props)
           thrown == IF r = "ok" THEN "regexp" ELSE r
       IN IF r = "ok" /\ ~templateThrows(l.props, EmptyMap)
          THEN LET L1 == write(Before, el, html)
                   L2 == [L1 EXCEPT !.loads = [@ EXCEPT ![id] =
                                [@ EXCEPT !.phase = "nested", !.html = html]]]
                   L3 == loadNestedComponents(L2, id, el, html)
               IN /\ fileCache' = fileCacheSet(fileCache, l.path, html)
                  /\ warm' = IF fileCache.enabled /\ l.path \notin DOMAIN warm
                             THEN Put(warm, l.path, html) ELSE warm
                  /\ componentLoaded' = IF l.nested THEN componentLoaded
                                        ELSE [componentLoaded EXCEPT ![l.target] = l.path]
                  /\ After(L3, rootOf(loads, id))
                  /\ builds' = settled(builds, l.owner, "committed")
                  /\ failed' = failed \ {l.path}
                  /\ lobs' = Lobs("fetched", id, l.path, l.target, "pending", <<>>,
                                  FALSE, FALSE, L3.fired, l.path \in DOMAIN warm)
          ELSE LET L1 == [Before EXCEPT !.guard = @ \ {l.path}]
                   L2 == write(L1, el, ErrorFragment(l.path, ErrorMessage(thrown)))
                   L3 == [L2 EXCEPT !.loads = [x \in (DOMAIN @) \ {id} |-> @[x]]]
               IN /\ After(L3, rootOf(loads, id))
                  /\ builds' = settled(builds, l.owner, "rejected")
                  /\ failed' = IF l.path \in DOMAIN fileCache.cache THEN failed
                               ELSE failed \cup {l.path}
                  /\ lobs' = Lobs("failed", id, l.path, l.target, "rejected",
                                  <<Err(thrown)>>,
                                  FALSE, FALSE, trigger(l.path, "onError"),
                                  l.path \in DOMAIN warm)
                  /\ UNCHANGED <<fileCache, warm, componentLoaded>>
    /\ UNCHANGED <<nextId, server, hooks>>
    /\ UNCHANGED <<jsLoaded, cssFetches, sobs>>
    /\ UNCHANGED <<pageCache, nextBuild, storedBy, bobs>>
    /\ UNCHANGED storeVars
    /\ UNCHANGED miscVars

\* the loads and resources a load waits for in Promise.allSettled
waitsFor(id) ==
    \/ \E x \in DOMAIN loads : loads[x].parent = id
    \/ \E res \in resources : res.owner = id

\* loadNestedComponents(element).then(...): executeScripts after a fetch
\* (after a cache hit they ran before the nested loads), afterLoad, the guard
\* entry is deleted, the promise fulfils with the html
LoadFinishes(id) ==
    /\ id \in DOMAIN loads
    /\ loads[id].phase = "nested"
    /\ ~waitsFor(id)
    /\ LET l == loads[id]
           root == rootOf(loads, id)
           evaluated == IF l.cached THEN <<>>
                        ELSE executeScripts(Before, elementOf(l), l.html)
           L1 == [Before EXCEPT !.guard = @ \ {l.path}, !.ran = evaluated]
           L2 == [L1 EXCEPT !.loads = [x \in (DOMAIN @) \ {id} |-> @[x]]]
       IN /\ After(L2, root)
          /\ builds' = settled(builds, l.owner, "fulfilled")
          /\ sobs' = IF l.parent = 0
                     THEN [id |-> id, path |-> l.path, cached |-> l.cached,
                           scripts |-> l.ran \o evaluated]
                     ELSE sobs
          /\ lobs' = Lobs("done", id, l.path, l.target, "fulfilled",
                          l.html, FALSE, FALSE, trigger(l.path, "afterLoad"),
                          l.path \in DOMAIN warm)
    /\ UNCHANGED <<fileCache, nextId, server, hooks, warm, failed>>
    /\ UNCHANGED <<jsLoaded, cssFetches, componentLoaded>>
    /\ UNCHANGED <<pageCache, nextBuild, storedBy, bobs>>
    /\ UNCHANGED storeVars
    /\ UNCHANGED miscVars

\* a nested stylesheet or script settles: link.onload / link.onerror of
\* loadCSS, the .then / .catch handlers of loadJS; the load that waits for it
\* takes either outcome (.catch(() => null))
ResourceSettles(res, ok) ==
    /\ res \in resources
    /\ resources' = resources \ {res}
    /\ cssFetches' = IF res.kind = "css" /\ ok THEN cssFetches \cup {res.path}
                     ELSE cssFetches
    /\ jsLoaded' = IF res.kind = "js" /\ ok THEN jsLoaded \cup {res.path} ELSE jsLoaded
    /\ lobs' = Lobs(res.kind, res.owner, res.path, "", IF ok THEN "fulfilled" ELSE "rejected",
                    <<>>, FALSE, FALSE, <<>>, FALSE)
    /\ UNCHANGED <<fileCache, loadingComponents, loads, nextId, server, hooks, warm, failed>>
    /\ UNCHANGED <<inner, cssLinks, sobs>>
    /\ UNCHANGED <<storeVars, domVars, pageVars>>
    /\ UNCHANGED miscVars

\* the fetch link.onload makes to keep the stylesheet text in the file cache
CssText == <<Text("css")>>
CssTextFetched(href, ok) ==
    /\ href \in cssFetches
    /\ cssFetches' = cssFetches \ {href}
    /\ fileCache' = IF ok THEN fileCacheSet(fileCache, href, CssText) ELSE fileCache
    /\ lobs' = CacheCall("cssText")
    /\ UNCHANGED <<loadingComponents, loads, nextId, server, hooks, warm, failed>>
    /\ UNCHANGED <<inner, resources, cssLinks, jsLoaded, sobs>>
    /\ UNCHANGED <<storeVars, domVars, pageVars>>
    /\ UNCHANGED miscVars

(***************************************************************************)
(* The page builder: buildPageFromComponents and processComponentDefinition *)
(* with the page cache.                                                     *)
(***************************************************************************)
\* pageCache.get: undefined when caching is off or the key is absent
pageCacheHas(pc, key) == pc.enabled /\ key \in DOMAIN pc.cache
pageCacheGet(pc, key) == IF pageCacheHas(pc, key) THEN pc.cache[key] ELSE <<>>
\* "if (cached)": an empty string is falsy
pageCacheMiss(pc, key) == FALSE
pageCacheHit(pc, key) == pageCacheHas(pc, key) /\ pc.cache[key] # <<>>
\* pageCache.set
pageCacheSet(pc, key, html) ==
    IF pc.enabled THEN [pc EXCEPT !.cache = Put(pc.cache, key, html)] ELSE pc

\* a component definition: a path string, or an object with name, selector,
\* condition, props and children (children are path strings here)
StrDef(path) ==
    [str |-> TRUE, name |-> path, selector |-> "", condition |-> "none",
     props |-> EmptyMap, children |-> <<>>]
ObjDef(name, selector, condition, props, children) ==
    [str |-> FALSE, name |-> name, selector |-> selector, condition |-> condition,
     props |-> props, children |-> children]
\* a page definition: an array of definitions, or an object with components
\* and a cacheKey ("" when it has none)
PageDef(components, key) == [components |-> components, cacheKey |-> key]

\* the characters of the strings that occur in definitions
Chars(str) ==
    CASE str = "p1" -> <<"p", "1">>
      [] str = "p2" -> <<"p", "2">>
      [] str = "#t1" -> <<"#", "t", "1">>
      [] str = "#t2" -> <<"#", "t", "2">>
      [] str = "name" -> <<"n", "a", "m", "e">>
      [] str = "selector" -> <<"s", "e", "l", "e", "c", "t", "o", "r">>
      [] str = "condition" -> <<"c", "o", "n", "d", "i", "t", "i", "o", "n">>
      [] str = "props" -> <<"p", "r", "o", "p", "s">>
      [] str = "children" -> <<"c", "h", "i", "l", "d", "r", "e", "n">>
      [] str = "true" -> <<"t", "r", "u", "e">>
      [] str = "false" -> <<"f", "a", "l", "s", "e">>
      [] OTHER -> <<str>>
\* JSON.stringify of a string, of a property and of a list of values
jsonString(str) == <<"\"">> \o Chars(str) \o <<"\"">>
jsonProperty(key, json) == jsonString(key) \o <<":">> \o json
RECURSIVE jsonList(_)
jsonList(items) ==
    IF items = <<>> THEN <<>>
    ELSE IF Len(items) = 1 THEN items[1]
    ELSE items[1] \o <<",">> \o jsonList(Tail(items))
RECURSIVE jsonEntries(_)
jsonEntries(props) ==
    IF DOMAIN props = {} THEN <<>>
    ELSE LET k == CHOOSE x \in DOMAIN props : TRUE
         IN <<jsonProperty(k, <<NumStr(props[k].n)>>)>>
            \o jsonEntries([x \in DOMAIN props \ {k} |-> props[x]])
jsonProps(props) == <<"{">> \o jsonList(jsonEntries(props)) \o <<"}">>
\* JSON.stringify of a definition: properties in the order they are written,
\* absent ones and predicates (functions) left out
jsonDef(comp) ==
    IF comp.str THEN jsonString(comp.name)
    ELSE <<"{">> \o jsonList(
            <<jsonProperty("name", jsonString(comp.name))>>
            \o (IF comp.selector = "" THEN <<>>
                ELSE <<jsonProperty("selector", jsonString(comp.selector))>>)
            \o (IF comp.condition \in {"true", "false"}
                THEN <<jsonProperty("condition", Chars(comp.condition))>> ELSE <<>>)
            \o (IF comp.props = EmptyMap THEN <<>>
                ELSE <<jsonProperty("props", jsonProps(comp.props))>>)
            \o (IF comp.children = <<>> THEN <<>>
                ELSE <<jsonProperty("children",
                          <<"[">> \o jsonList([i \in DOMAIN comp.children |->
                                                 jsonString(comp.children[i])]) \o <<"]">>)>>))
         \o <<"}">>
stringify(components) ==
    <<"[">> \o jsonList([i \in DOMAIN components |-> jsonDef(components[i])]) \o <<"]">>
\* substring(0, n)
substring(chars, n) == SubSeq(chars, 1, IF Len(chars) < n THEN Len(chars) ELSE n)
KeyLength == 50
\* the key of a page definition in the page cache
cacheKey(pageDef) ==
    IF pageDef.cacheKey # "" THEN Chars(pageDef.cacheKey)
    ELSE substring(stringify(pageDef.components), KeyLength)

\* comp.condition is absent or truthy (a predicate is called)
conditionAlways(comp) == TRUE
conditionHolds(comp) == comp.condition \in {"none", "true", "predTrue"}

\* the id of the load of child c of definition i of build b
loadId(b, i, c) == 100 * b + 10 * i + c
\* a definition of a build in flight: where its promise stands, the element
\* it loads into, whether its markup has been written
Slot(state, element, children) ==
    [state |-> state, element |-> element, children |-> children, committed |-> FALSE]
Started(i, c, path, promise) == [i |-> i, c |-> c, path |-> path, promise |-> promise]

\* the loader called for a definition or a child of one: the load it starts,
\* if any, belongs to that definition
loadFor(L, owner, element, path, props) ==
    LET id == loadId(owner.b, owner.i, owner.c)
        L1 == loadComponentIntoElement(L, id, El(element, FALSE, FALSE), path, props, 0)
    IN IF id \in DOMAIN L1.loads
       THEN [L1 EXCEPT !.loads[id].owner = owner] ELSE L1

\* processComponentDefinition(comp, target) up to the promise it returns; B
\* holds the loader state, the slots and loader calls so far and whether a
\* call has thrown
processComponentDefinition(B, b, i, comp, target) ==
    IF comp.str
    THEN LET L1 == loadFor(B.L, Owner(b, i, 0), target, comp.name, EmptyMap)
         IN [B EXCEPT !.L = L1,
                      !.slots = Append(@, [Slot(IF L1.promise = "pending" THEN "loading"
                                                ELSE "fulfilled", target, <<>>)
                                           EXCEPT !.committed = L1.hit /\ L1.promise = "pending"]),
                      !.started = Append(@, Started(i, 0, comp.name, L1.promise))]
    ELSE IF ~conditionHolds(comp)
    THEN [B EXCEPT !.slots = Append(@, Slot("fulfilled", target, <<>>))]
    ELSE LET element == IF comp.selector \in Targets THEN comp.selector ELSE target
             L1 == loadFor(B.L, Owner(b, i, 0), element, comp.name, comp.props)
         IN [B EXCEPT !.L = L1,
                      !.threw = (L1.promise = "threw"),
                      !.slots = Append(@, [Slot(CASE L1.promise = "pending" -> "loading"
                                                  [] L1.promise = "threw" -> "threw"
                                                  [] comp.children # <<>> -> "then"
                                                  [] OTHER -> "fulfilled",
                                                element, comp.children)
                                           EXCEPT !.committed = L1.hit /\ L1.promise = "pending"]),
                      !.started = Append(@, Started(i, 0, comp.name, L1.promise))]

\* components.map(comp => processComponentDefinition(comp, target)): an
\* exception thrown by a call ends the map
RECURSIVE processAll(_, _, _, _, _)
processAll(B, b, components, i, target) ==
    IF i > Len(components) \/ B.threw THEN B
    ELSE processAll(processComponentDefinition(B, b, i, components[i], target),
                    b, components, i + 1, target)

\* what a page-builder step did: the build, its definition, target and key,
\* whether the page cache served it, the promise returned, the loader calls
\* made, the results it fulfilled with, whether the page cache took the
\* markup, whether the parent of the children processed had written its
\* markup, and the markup of the target after the step
Bobs(step, b, d, target, key, hit, promise, started, results, stored) ==
    [step |-> step, b |-> b, d |-> d, target |-> target, key |-> key, hit |-> hit,
     promise |-> promise, started |-> started, results |-> results, stored |-> stored,
     committed |-> FALSE, html |-> <<>>]
NoBobs == Bobs("", 0, 0, "", <<>>, FALSE, "", <<>>, <<>>, FALSE)
Build(d, key, target, slots) == [d |-> d, key |-> key, target |-> target, slots |-> slots]

\* the page definitions built: two paths; a path between two definitions
\* whose condition is false (a value, a predicate), the first with a child; two
\* definitions of the same component with a child each; a definition with
\* props between two paths, under an explicit key
BadProps == BadKey :> Num(1)
PageDefs ==
    << PageDef(<<StrDef("p1"), StrDef("p2")>>, ""),
       PageDef(<<ObjDef("p2", "#t2", "false", EmptyMap, <<"p2">>), StrDef("p1"),
                 ObjDef("p2", "", "predFalse", EmptyMap, <<>>)>>, ""),
       PageDef(<<ObjDef("p1", "", "none", EmptyMap, <<"p2">>),
                 ObjDef("p1", "#t2", "true", EmptyMap, <<"p2">>)>>, ""),
       PageDef(<<StrDef("p2"), ObjDef("p1", "", "predTrue", BadProps, <<>>),
                 StrDef("p2")>>, "k"),
       PageDef(<<ObjDef("p1", "", "none", EmptyMap, <<"p2">>),
                 ObjDef("p1", "#t2", "false", EmptyMap, <<"p2">>)>>, "") >>

\* HTMLComponents.buildPage(pageDef, targetElement, clearTarget), called on a
\* page where no build and no load is in flight
buildPageFromComponents(d, targetElement, clearTarget) ==
    LET pageDef == PageDefs[d]
        b == nextBuild + 1
        key == cacheKey(pageDef)
        target == El(targetElement, FALSE, FALSE)
    IN /\ nextBuild < MaxBuilds
       /\ builds = EmptyMap /\ loads = EmptyMap
       /\ nextBuild' = b
       /\ UNCHANGED <<fileCache, nextId, server, hooks, warm, failed, lobs, componentLoaded>>
       /\ UNCHANGED <<jsLoaded, cssFetches, sobs, pageCache, storedBy>>
       /\ UNCHANGED storeVars
       /\ IF ~matches(targetElement)
          THEN \* Promise.reject(new Error('Target element not found'))
               /\ bobs' = Bobs("build", b, d, targetElement, <<>>, FALSE, "rejected",
                               <<>>, <<>>, FALSE)
               /\ After(Before, 0)
               /\ UNCHANGED builds
          ELSE IF pageCacheHit(pageCache, key)
          THEN \* target.innerHTML = cached; return Promise.resolve()
               /\ After(write(Before, target, pageCacheGet(pageCache, key)), 0)
               /\ bobs' = [Bobs("build", b, d, targetElement, key, TRUE, "fulfilled",
                                <<>>, <<>>, FALSE)
                           EXCEPT !.html = pageCacheGet(pageCache, key)]
               /\ UNCHANGED builds
          ELSE LET L0 == IF clearTarget \/ content[targetElement] = <<>>
                         THEN write(Before, target, <<>>) ELSE Before
                   B == processAll([L |-> L0, slots |-> <<>>, started |-> <<>>,
                                    threw |-> FALSE],
                                   b, pageDef.components, 1, targetElement)
               IN /\ After(B.L, 0)
                  /\ builds' = IF B.threw THEN builds
                               ELSE Put(builds, b, Build(d, key, targetElement, B.slots))
                  /\ bobs' = [Bobs("build", b, d, targetElement, key, FALSE,
                                   IF B.threw THEN "threw" ELSE "pending",
                                   B.started, <<>>, FALSE)
                              EXCEPT !.html = B.L.content[targetElement]]
       /\ UNCHANGED miscVars

\* promise.then(() => Promise.allSettled(children.map(child =>
\* processComponentDefinition(child, element)))): the children of definition
\* i of build b are processed once its own promise has fulfilled
RECURSIVE childLoads(_, _, _, _, _)
childLoads(B, b, i, slot, c) ==
    IF c > Len(slot.children) THEN B
    ELSE LET L1 == loadFor(B.L, Owner(b, i, c), slot.element, slot.children[c], EmptyMap)
         IN childLoads([B EXCEPT !.L = L1,
                                 !.started = Append(@, Started(i, c, slot.children[c],
                                                               L1.promise))],
                       b, i, slot, c + 1)

ProcessChildren(b, i) ==
    /\ b \in DOMAIN builds
    /\ i \in DOMAIN builds[b].slots
    /\ builds[b].slots[i].state = "then"
    /\ LET slot == builds[b].slots[i]
           B == childLoads([L |-> Before, slots |-> <<>>, started |-> <<>>, threw |-> FALSE],
                           b, i, slot, 1)
       IN /\ After(B.L, 0)
          /\ builds' = [builds EXCEPT ![b].slots[i].state = "children"]
          /\ bobs' = [Bobs("children", b, builds[b].d, slot.element, builds[b].key, FALSE,
                           "pending", B.started, <<>>, FALSE)
                      EXCEPT !.committed = slot.committed]
    /\ UNCHANGED <<fileCache, nextId, server, hooks, warm, failed, lobs, componentLoaded>>
    /\ UNCHANGED <<jsLoaded, cssFetches, sobs, pageCache, nextBuild, storedBy>>
    /\ UNCHANGED storeVars
    /\ UNCHANGED miscVars

\* the promise of definition i of build b has settled: its own promise when
\* it has no children, else the Promise.allSettled of its children
childrenOf(b, i) ==
    {id \in DOMAIN loads : /\ loads[id].owner.b = b /\ loads[id].owner.i = i
                           /\ loads[id].owner.c > 0}
hasSettled(b, i) ==
    LET slot == builds[b].slots[i]
    IN \/ slot.state \in {"fulfilled", "rejected"}
       \/ slot.state = "children" /\ childrenOf(b, i) = {}

\* Promise.allSettled(promises).then(results => { pageCache.set(cacheKey,
\* target.innerHTML); return results; })
BuildSettles(b) ==
    /\ b \in DOMAIN builds
    /\ \A i \in DOMAIN builds[b].slots : hasSettled(b, i)
    /\ LET build == builds[b]
           html == content[build.target]
           results == [i \in DOMAIN build.slots |->
                         IF build.slots[i].state = "rejected" THEN "rejected"
                         ELSE "fulfilled"]
       IN /\ pageCache' = pageCacheSet(pageCache, build.key, html)
          /\ builds' = [x \in DOMAIN builds \ {b} |-> builds[x]]
          /\ storedBy' = IF pageCache.enabled
                         THEN Put(storedBy, build.key, <<build.d, build.target>>)
                         ELSE storedBy
          /\ bobs' = [Bobs("built", b, build.d, build.target, build.key, FALSE,
                           "fulfilled", <<>>, results, pageCache.enabled)
                      EXCEPT !.html = html]
    /\ UNCHANGED nextBuild
    /\ UNCHANGED <<storeVars, loaderVars, domVars, nestVars>>
    /\ UNCHANGED miscVars

\* HTMLComponents.clearPageCache
PageCacheCall(f) == [NoBobs EXCEPT !.step = f]
ClearPageCache ==
    /\ pageCache.cache # EmptyMap
    /\ pageCache' = [pageCache EXCEPT !.cache = EmptyMap]
    /\ storedBy' = EmptyMap
    /\ bobs' = PageCacheCall("clear")
    /\ UNCHANGED <<builds, nextBuild>>
    /\ UNCHANGED <<storeVars, loaderVars, domVars, nestVars>>
    /\ UNCHANGED miscVars

\* The builder of the advanced library: a page definition carries a cache
\* field (true, false, or none) that replaces the global flag in the
\* builder's decision to consult the page cache; the definitions here
\* have an explicit cacheKey.
AdvancedDef(components, key, cache) ==
    [components |-> components, cacheKey |-> key, cache |-> cache]
AdvancedDefs ==
    << AdvancedDef(<<StrDef("p1")>>, "k", "unset"),
       AdvancedDef(<<StrDef("p1")>>, "k", "true"),
       AdvancedDef(<<StrDef("p1")>>, "k", "false") >>
\* let useCache = pageCache.enabled; if (pageDefinition.cache !== undefined)
\* useCache = pageDefinition.cache
useCache(pc, pageDef) ==
    IF pageDef.cache = "unset" THEN pc.enabled ELSE pageDef.cache = "true"

buildPageAdvanced(d, targetElement, clearTarget) ==
    LET pageDef == AdvancedDefs[d]
        b == nextBuild + 1
        key == Chars(pageDef.cacheKey)
        use == useCache(pageCache, pageDef)
        target == El(targetElement, FALSE, FALSE)
    IN /\ nextBuild < MaxBuilds
       /\ builds = EmptyMap /\ loads = EmptyMap
       /\ nextBuild' = b
       /\ UNCHANGED <<fileCache, nextId, server, hooks, warm, failed, lobs, componentLoaded>>
       /\ UNCHANGED <<jsLoaded, cssFetches, sobs, pageCache, storedBy>>
       /\ UNCHANGED storeVars
       /\ IF ~matches(targetElement)
          THEN \* Promise.reject(new Error('Target element not found'))
               /\ bobs' = Bobs("build", b, d, targetElement, <<>>, FALSE, "rejected",
                               <<>>, <<>>, FALSE)
               /\ After(Before, 0)
               /\ UNCHANGED builds
          ELSE IF use /\ pageCacheHit(pageCache, key)
          THEN \* target.innerHTML = cachedContent
               /\ After(write(Before, target, pageCacheGet(pageCache, key)), 0)
               /\ bobs' = [Bobs("build", b, d, targetElement, key, TRUE, "fulfilled",
                                <<>>, <<>>, FALSE)
                           EXCEPT !.html = pageCacheGet(pageCache, key)]
               /\ UNCHANGED builds
          ELSE LET L0 == IF clearTarget \/ content[targetElement] = <<>>
                         THEN write(Before, target, <<>>) ELSE Before
                   B == processAll([L |-> L0, slots |-> <<>>, started |-> <<>>,
                                    threw |-> FALSE],
                                   b, pageDef.components, 1, targetElement)
               IN /\ After(B.L, 0)
                  /\ builds' = IF B.threw THEN builds
                               ELSE Put(builds, b, [useCache |-> use]
                                                   @@ Build(d, key, targetElement, B.slots))
                  /\ bobs' = [Bobs("build", b, d, targetElement, key, FALSE,
                                   IF B.threw THEN "threw" ELSE "pending",
                                   B.started, <<>>, FALSE)
                              EXCEPT !.html = B.L.content[targetElement]]
       /\ UNCHANGED miscVars

\* if (useCache && cacheKey) pageCache.set(cacheKey, target.innerHTML)
AdvancedBuildSettles(b) ==
    /\ b \in DOMAIN builds
    /\ \A i \in DOMAIN builds[b].slots : hasSettled(b, i)
    /\ LET build == builds[b]
           html == content[build.target]
           results == [i \in DOMAIN build.slots |->
                         IF build.slots[i].state = "rejected" THEN "rejected"
                         ELSE "fulfilled"]
           stores == build.useCache /\ pageCache.enabled
       IN /\ pageCache' = IF build.useCache THEN pageCacheSet(pageCache, build.key, html)
                          ELSE pageCache
          /\ builds' = [x \in DOMAIN builds \ {b} |-> builds[x]]
          /\ storedBy' = IF stores THEN Put(storedBy, build.key, <<build.d, build.target>>)
                         ELSE storedBy
          /\ bobs' = [Bobs("built", b, build.d, build.target, build.key, FALSE,
                           "fulfilled", <<>>, results, stores)
                      EXCEPT !.html = html]
    /\ UNCHANGED nextBuild
    /\ UNCHANGED <<storeVars, loaderVars, domVars, nestVars>>
    /\ UNCHANGED miscVars

\* HTMLComponents.enablePageCache(), disablePageCache()
EnablePageCache ==
    /\ pageCache' = [pageCache EXCEPT !.enabled = TRUE]
    /\ bobs' = PageCacheCall("enable")
    /\ UNCHANGED <<builds, nextBuild, storedBy>>
    /\ UNCHANGED <<storeVars, loaderVars, domVars, nestVars>>
    /\ UNCHANGED miscVars

DisablePageCache ==
    /\ pageCache' = [pageCache EXCEPT !.enabled = FALSE]
    /\ bobs' = PageCacheCall("disable")
    /\ UNCHANGED <<builds, nextBuild, storedBy>>
    /\ UNCHANGED <<storeVars, loaderVars, domVars, nestVars>>
    /\ UNCHANGED miscVars

(***************************************************************************)
(* Event binding: bindEventHandlers attaches one listener per element and  *)
(* declared event and marks the element; the listener looks the handler up *)
(* among the global functions when the event fires.                        *)
(***************************************************************************)
\* two of the supported events
supportedEvents == {"click", "submit"}
\* e1 is in the markup of the component loaded into #t1, e3 in the markup
\* of the component nested in it (its element is #n1), e2 is static markup
\* of the page
Elems == {"e1", "e2", "e3"}
Containers == {"body", "#t1", "#n1"}
querySelectorAll(els, container) ==
    CASE container = "body" -> els
      [] container = "#t1" -> els \cap {"e1", "e3"}
      [] container = "#n1" -> els \cap {"e3"}
\* element.getAttribute("data-" + eventType), "" for null
getAttribute(element, eventType) ==
    CASE element = "e1" /\ eventType = "click" -> "go"
      [] element = "e1" /\ eventType = "submit" -> "send"
      [] element = "e2" /\ eventType = "click" -> "go"
      [] element = "e3" /\ eventType = "click" -> "send"
      [] OTHER -> ""
MethodNames == {"go", "send"}
Behaviours == {"returns", "throws"}

\* element.dataset["bound_" + eventType]
isBoundNever(m, element, eventType) == FALSE
isBound(m, element, eventType) == <<element, eventType>> \in m

\* the document: its elements, their listeners and their markers
Dom(els, att, m) == [elements |-> els, attached |-> att, marked |-> m, boundCount |-> 0]

\* bindEventHandlers(container)
toBind(D, container) ==
    {p \in querySelectorAll(D.elements, container) \X supportedEvents :
        getAttribute(p[1], p[2]) # "" /\ ~isBound(D.marked, p[1], p[2])}
addEventListeners(att, pairs) ==
    [e \in Elems |-> [t \in supportedEvents |->
        IF <<e, t>> \in pairs THEN Append(att[e][t], getAttribute(e, t)) ELSE att[e][t]]]
bindEventHandlers(D, container) ==
    LET pairs == toBind(D, container)
    IN [elements |-> D.elements,
        attached |-> addEventListeners(D.attached, pairs),
        marked |-> D.marked \cup pairs,
        boundCount |-> Cardinality(pairs)]

Eobs(step, container, element, type, count, ran, logged, prevented, escaped) ==
    [step |-> step, container |-> container, element |-> element, type |-> type,
     count |-> count, ran |-> ran, logged |-> logged, prevented |-> prevented,
     escaped |-> escaped]
NoEobs == Eobs("", "", "", "", 0, <<>>, <<>>, FALSE, FALSE)

InitEvents ==
    /\ elements = {"e2"}
    /\ attached = [e \in Elems |-> [t \in supportedEvents |-> <<>>]]
    /\ marked = {}
    /\ snapshot = [elements |-> {}, marked |-> {}]
    /\ window = EmptyMap
    /\ eobs = NoEobs

\* element.innerHTML = markup: the elements inside the container are
\* replaced by new ones, which carry the markers of the markup and no
\* listener
Inside(container) == IF container = "#t1" THEN {"e1", "e3"} ELSE {"e3"}
innerHTML(D, container, inside, markers) ==
    Dom((D.elements \ Inside(container)) \cup inside,
        [e \in Elems |-> IF e \in Inside(container)
                         THEN [t \in supportedEvents |-> <<>>]
                         ELSE D.attached[e]],
        {p \in D.marked : p[1] \notin Inside(container)} \cup markers)

\* bindEventHandlers(document.body) once the initial loads have settled
BindBody ==
    /\ LET D == bindEventHandlers(Dom(elements, attached, marked), "body")
       IN /\ attached' = D.attached
          /\ marked' = D.marked
          /\ eobs' = Eobs("bind", "body", "", "", D.boundCount, <<>>, <<>>, FALSE, FALSE)
    /\ UNCHANGED <<elements, snapshot, window>>
    /\ UNCHANGED <<storeVars, loaderVars, domVars, nestVars, pageVars, tobs>>

\* a load writes the markup of its component into its element and binds
\* the handlers in it; the element of the nested component exists once
\* the parent's markup has been written
Markup(container) == IF container = "#t1" THEN {"e1"} ELSE {"e3"}
LoadWrites(container) ==
    /\ container \in {"#t1", "#n1"}
    /\ container = "#n1" => "e1" \in elements
    /\ LET D == bindEventHandlers(innerHTML(Dom(elements, attached, marked), container,
                                            Markup(container), {}),
                                  container)
       IN /\ elements' = D.elements
          /\ attached' = D.attached
          /\ marked' = D.marked
          /\ eobs' = Eobs("load", container, "", "", D.boundCount, <<>>, <<>>, FALSE, FALSE)
    /\ UNCHANGED <<snapshot, window>>
    /\ UNCHANGED <<storeVars, loaderVars, domVars, nestVars, pageVars, tobs>>

\* pageCache.set(cacheKey, target.innerHTML): the markup is stored with
\* the markers of its elements
StorePage ==
    /\ snapshot' = [elements |-> elements \cap Inside("#t1"),
                    marked |-> {p \in marked : p[1] \in Inside("#t1")}]
    /\ eobs' = Eobs("store", "#t1", "", "", 0, <<>>, <<>>, FALSE, FALSE)
    /\ UNCHANGED <<elements, attached, marked, window>>
    /\ UNCHANGED <<storeVars, loaderVars, domVars, nestVars, pageVars, tobs>>

\* a page-cache hit: target.innerHTML = cached, nothing is bound
RestorePage ==
    /\ snapshot.elements # {}
    /\ LET D == innerHTML(Dom(elements, attached, marked), "#t1",
                          snapshot.elements, snapshot.marked)
       IN /\ elements' = D.elements
          /\ attached' = D.attached
          /\ marked' = D.marked
    /\ eobs' = Eobs("restore", "#t1", "", "", 0, <<>>, <<>>, FALSE, FALSE)
    /\ UNCHANGED <<snapshot, window>>
    /\ UNCHANGED <<storeVars, loaderVars, domVars, nestVars, pageVars, tobs>>

\* a script of the page defines or removes a global function
DefineHandler(name, behaviour) ==
    /\ window' = Put(window, name, behaviour)
    /\ eobs' = Eobs("define", "", "", "", 0, <<>>, <<>>, FALSE, FALSE)
    /\ UNCHANGED <<elements, attached, marked, snapshot>>
    /\ UNCHANGED <<storeVars, loaderVars, domVars, nestVars, pageVars, tobs>>
DeleteHandler(name) ==
    /\ name \in DOMAIN window
    /\ window' = [n \in DOMAIN window \ {name} |-> window[n]]
    /\ eobs' = Eobs("delete", "", "", "", 0, <<>>, <<>>, FALSE, FALSE)
    /\ UNCHANGED <<elements, attached, marked, snapshot>>
    /\ UNCHANGED <<storeVars, loaderVars, domVars, nestVars, pageVars, tobs>>

\* the listener bindEventHandlers attaches, run for one event
Log(kind, methodName) == [kind |-> kind, methodName |-> methodName]
RECURSIVE runListeners(_, _)
runListeners(ls, R) ==
    IF ls = <<>> THEN R
    ELSE LET methodName == Head(ls)
         IN runListeners(Tail(ls),
              IF methodName \in DOMAIN window
              THEN IF window[methodName] = "throws"
                   THEN [R EXCEPT !.ran = Append(@, methodName),
                                  !.logged = Append(@, Log("error", methodName)),
                                  !.prevented = TRUE]
                   ELSE [R EXCEPT !.ran = Append(@, methodName),
                                  !.logged = Append(@, Log("executed", methodName))]
              ELSE [R EXCEPT !.logged = Append(@, Log("notFound", methodName))])

\* the event fires on the element
Dispatch(element, eventType) ==
    /\ element \in elements
    /\ eobs' = runListeners(attached[element][eventType],
                            Eobs("dispatch", "", element, eventType, 0, <<>>, <<>>, FALSE, FALSE))
    /\ UNCHANGED <<elements, attached, marked, snapshot, window>>
    /\ UNCHANGED <<storeVars, loaderVars, domVars, nestVars, pageVars, tobs>>

(***************************************************************************)
(* Initial states and the specifications: the state store on a page that   *)
(* may hold a loaded component, the loader with the file cache, the loader *)
(* on files with nested resources, and the page builder.                   *)
(***************************************************************************)
PropKey == "name"
PropSets == {EmptyMap, PropKey :> Num(1), BadKey :> Num(1)}
\* the files of the server: p1 is a template, p2 another template or an
\* empty file
Servers == {[p \in Paths |-> IF p = "p1" THEN <<Text("Hi "), Var(PropKey)>> ELSE raw2] :
               raw2 \in {<<>>, <<Text("Bye "), Var(PropKey)>>}}
HookedPaths == {"p1", "*"}

InitStore ==
    /\ states = EmptyMap
    /\ listeners = EmptyMap
    /\ computedDeps = EmptyMap
    /\ dataBindings = [e \in Range(BElems) |-> <<>>]
    /\ elProp = [e \in Range(BElems) |-> [p \in Properties |-> ""]]
    /\ bindCount = 0
    /\ obs = NoObs
    /\ fnOf = EmptyMap
    /\ InitEvents
    /\ tobs = NoTobs

NoSobs == [id |-> 0, path |-> "", cached |-> FALSE, scripts |-> <<>>]
InitNest ==
    /\ inner = [t \in Targets |-> <<>>]
    /\ resources = {}
    /\ cssLinks = {}
    /\ jsLoaded = {}
    /\ cssFetches = {}
    /\ sobs = NoSobs

InitPage ==
    /\ pageCache = [enabled |-> TRUE, cache |-> EmptyMap]
    /\ builds = EmptyMap
    /\ nextBuild = 0
    /\ storedBy = EmptyMap
    /\ bobs = NoBobs

InitLoader ==
    /\ fileCache = [enabled |-> TRUE, cache |-> EmptyMap]
    /\ loadingComponents = {}
    /\ loads = EmptyMap
    /\ nextId = 0
    /\ warm = EmptyMap
    /\ failed = {}
    /\ InitNest
    /\ InitPage
    /\ lobs = NoLobs
    /\ content = [t \in Targets |-> <<>>]
    /\ componentLoaded = [t \in Targets |-> ""]

\* the page after loadComponent("#t1", "p1") of the text "Hi {{a}}" has
\* been fetched and has finished
InitLoaded ==
    LET raw == <<Text("Hi "), Var("a")>>
    IN /\ fileCache = [enabled |-> TRUE, cache |-> ("p1" :> raw)]
       /\ loadingComponents = {}
       /\ loads = EmptyMap
       /\ nextId = 1
       /\ warm = ("p1" :> raw)
       /\ failed = {}
       /\ InitNest
       /\ InitPage
       /\ lobs = Lobs("done", 1, "p1", "#t1", "fulfilled", raw, FALSE, FALSE, <<>>, TRUE)
       /\ content = [t \in Targets |-> IF t = "#t1" THEN raw ELSE <<>>]
       /\ componentLoaded = [t \in Targets |-> IF t = "#t1" THEN "p1" ELSE ""]

InitState ==
    /\ InitStore
    /\ InitLoaded
    /\ server = [p \in Paths |-> <<Text("Hi "), Var("a")>>]
    /\ hooks = {}

\* the store with subscribers and computed entries
NextState ==
    \/ \E name \in Names, v \in InputVals : Create(name, v)
    \/ \E name \in AllNames, v \in InputVals : Set(name, v)
    \/ \E name \in Names, cb \in UserCallbacks : Subscribe(name, cb)
    \/ \E name \in Names, cb \in UserCallbacks : Unsubscribe(name, cb)
    \/ \E name \in CompNames, deps \in DepLists, fn \in Fns : Computed(name, deps, fn)

SpecState == InitState /\ [][NextState]_vars

\* the store with bound elements, a subscriber and computed entries
NextBind ==
    \/ \E name \in Names, v \in BindVals : Create(name, v)
    \/ \E name \in Names, v \in BindVals : Set(name, v)
    \/ \E name \in Names : Subscribe(name, Recorder)
    \/ \E name \in CompNames, deps \in DepLists : Computed(name, deps, "double")
    \/ \E sel \in Selectors, name \in Names, p \in Properties : Bind(sel, name, p)

SpecBind == InitState /\ [][NextBind]_vars

InitLoad ==
    /\ InitStore
    /\ InitLoader
    /\ server \in Servers
    /\ hooks = HookedPaths \X Phases

NextLoad ==
    \/ \E sel \in Targets \cup {"#missing"}, path \in Paths, props \in PropSets :
          LoadComponent(sel, path, props)
    \/ \E id \in 1..MaxLoads, r \in Responses : FetchSettles(id, r)
    \/ \E id \in 1..MaxLoads : LoadFinishes(id)
    \/ EnableFileCache
    \/ DisableFileCache
    \/ ClearFileCache

SpecLoad == InitLoad /\ [][NextLoad]_vars

\* the loader on files that name nested resources: p1 holds a script block,
\* a nested component (p2, or p1 itself), a stylesheet and a script file;
\* p2 holds a script block and a script file
NestedPaths == {"p1", "p2"}
NestServers ==
    {[p \in Paths |-> IF p = "p1"
                      THEN <<Script("s1"), Comp(c), Css("c.css"), Js("j.js")>>
                      ELSE <<Script("s2"), Js("j.js")>>] : c \in NestedPaths}

InitNested ==
    /\ InitStore
    /\ InitLoader
    /\ server \in NestServers
    /\ hooks = {}

NextNest ==
    \/ \E sel \in Targets, path \in Paths : LoadComponent(sel, path, EmptyMap)
    \/ \E id \in (-MaxLoads)..MaxLoads, r \in Responses : FetchSettles(id, r)
    \/ \E id \in (-MaxLoads)..MaxLoads : LoadFinishes(id)
    \/ \E res \in resources, ok \in BOOLEAN : ResourceSettles(res, ok)
    \/ \E href \in cssFetches, ok \in BOOLEAN : CssTextFetched(href, ok)

SpecNest == InitNested /\ [][NextNest]_vars

\* the page builder over two files without nested resources: p1 is a
\* template, p2 a text or an empty file
PageServers ==
    {[p \in Paths |-> IF p = "p1" THEN <<Text("A"), Var(PropKey)>> ELSE raw2] :
        raw2 \in {<<>>, <<Text("B")>>}}

PageResponses == {"ok", "404"}

InitBuilder ==
    /\ InitStore
    /\ InitLoader
    /\ server \in PageServers
    /\ hooks = {}

\* the definitions without an explicit key whose derived key is also the
\* derived key of another definition
KeyTwins ==
    {d \in DOMAIN PageDefs :
        /\ PageDefs[d].cacheKey = ""
        /\ \E e \in DOMAIN PageDefs \ {d} :
              /\ PageDefs[e].cacheKey = ""
              /\ cacheKey(PageDefs[e]) = cacheKey(PageDefs[d])}

NextPage ==
    \/ \E d \in DOMAIN PageDefs \ {k \in KeyTwins : \E e \in KeyTwins : e < k},
          sel \in Targets \cup {"#missing"}, clearTarget \in BOOLEAN :
          buildPageFromComponents(d, sel, clearTarget)
    \/ \E b \in DOMAIN builds : \E i \in DOMAIN builds[b].slots : ProcessChildren(b, i)
    \/ \E b \in DOMAIN builds : BuildSettles(b)
    \/ \E id \in DOMAIN loads, r \in PageResponses : FetchSettles(id, r)
    \/ \E id \in DOMAIN loads : LoadFinishes(id)
    \/ ClearPageCache

SpecPage == InitBuilder /\ [][NextPage]_vars

\* the page with declared event handlers: loads write markup and bind it,
\* the page is bound once, scripts define handlers and events fire
NextEvents ==
    \/ BindBody
    \/ \E c \in {"#t1", "#n1"} : LoadWrites(c)
    \/ StorePage
    \/ RestorePage
    \/ \E n \in MethodNames, b \in Behaviours : DefineHandler(n, b)
    \/ \E n \in MethodNames : DeleteHandler(n)
    \/ \E e \in Elems, t \in supportedEvents : Dispatch(e, t)

SpecEvents == InitBuilder /\ [][NextEvents]_vars

\* the template engine on templates with and without blocks and on
\* contexts with numbers, arrays, a key that props and state share and a
\* key that is no pattern
Lists == {Arr(<<>>), Arr(<<Num(1), Num(0), Num(2)>>), Arr(<<Num(2), Num(1)>>)}
Templates ==
    {<<>>,
     <<Text("Hi")>>,
     <<Text("a"), Var("name"), Var("other")>>,
     <<IfOpen("show"), Text("Y"), Var("name"), IfClose, Text("z")>>,
     <<EachOpen("items", "item"), Var("item"), Text(":"), Var("index"), Text(";"), EachClose>>,
     <<EachOpen("items", "item"), IfOpen("item"), Text("X"), IfClose, EachClose>>,
     <<IfOpen("show"), EachOpen("items", "item"), Var("name"), EachClose, IfClose>>,
     <<Text("b"), EachOpen("show", "item"), Text("n"), EachClose>>}
TemplateProps ==
    {EmptyMap, "name" :> Num(1), "show" :> Num(1), "show" :> Num(0), BadKey :> Num(1)}
    \cup {"items" :> l : l \in Lists}
    \cup {("items" :> l) @@ ("show" :> Num(1)) : l \in Lists}
    \cup {("items" :> l) @@ ("item" :> Num(0)) : l \in Lists}
TemplateStates == {EmptyMap, "name" :> Num(2), "show" :> Num(0), "items" :> Arr(<<Num(1)>>)}

NextTemplate ==
    \E template \in Templates, props \in TemplateProps, state \in TemplateStates :
        Expand(template, props, state)

SpecTemplate == InitBuilder /\ [][NextTemplate]_vars

\* loads and builds whose selector may match no element, on a page whose
\* caches fill: one page definition, its two files, one target
InitTargets ==
    /\ InitBuilder
    /\ server["p2"] = <<Text("B")>>

NextTargets ==
    \/ \E sel \in {"#t1", "#missing"} : LoadComponent(sel, "p1", EmptyMap)
    \/ \E sel \in {"#t1", "#missing"} : buildPageFromComponents(1, sel, FALSE)
    \/ \E b \in DOMAIN builds : BuildSettles(b)
    \/ \E id \in DOMAIN loads, r \in PageResponses : FetchSettles(id, r)
    \/ \E id \in DOMAIN loads : LoadFinishes(id)

SpecTargets == InitTargets /\ [][NextTargets]_vars

\* builds of the definitions that share a derived key
NextKeys ==
    \/ \E d \in KeyTwins, clearTarget \in BOOLEAN :
          buildPageFromComponents(d, "#t1", clearTarget)
    \/ \E b \in DOMAIN builds : \E i \in DOMAIN builds[b].slots : ProcessChildren(b, i)
    \/ \E b \in DOMAIN builds : BuildSettles(b)
    \/ \E id \in DOMAIN loads, r \in PageResponses : FetchSettles(id, r)
    \/ \E id \in DOMAIN loads : LoadFinishes(id)
    \/ ClearPageCache

SpecKeys == InitTargets /\ [][NextKeys]_vars

\* builds of one page into one target while both caches are enabled,
\* disabled and cleared
NextCaches ==
    \/ buildPageFromComponents(1, "#t1", FALSE)
    \/ \E b \in DOMAIN builds : BuildSettles(b)
    \/ \E id \in DOMAIN loads, r \in PageResponses : FetchSettles(id, r)
    \/ \E id \in DOMAIN loads : LoadFinishes(id)
    \/ EnableFileCache
    \/ DisableFileCache
    \/ ClearFileCache
    \/ EnablePageCache
    \/ DisablePageCache
    \/ ClearPageCache

SpecCaches == InitTargets /\ [][NextCaches]_vars

\* builds by the advanced builder of page definitions with a cache field,
\* while the page cache is enabled and disabled
NextOverride ==
    \/ \E d \in DOMAIN AdvancedDefs, clearTarget \in BOOLEAN :
          buildPageAdvanced(d, "#t1", clearTarget)
    \/ \E b \in DOMAIN builds : AdvancedBuildSettles(b)
    \/ \E id \in DOMAIN loads, r \in PageResponses : FetchSettles(id, r)
    \/ \E id \in DOMAIN loads : LoadFinishes(id)
    \/ EnablePageCache
    \/ DisablePageCache

SpecOverride == InitTargets /\ [][NextOverride]_vars

\* loads of p1, whose markup names p1 itself, into either target, with
\* the fetches, the nested resources and the continuations of every load
\* eventually running
InitCycle ==
    /\ InitNested
    /\ Comp("p1") \in Range(server["p1"])

NextCycle ==
    \/ \E sel \in Targets, props \in {EmptyMap, BadKey :> Num(1)} :
          LoadComponent(sel, "p1", props)
    \/ \E id \in (-MaxLoads)..MaxLoads, r \in Responses : FetchSettles(id, r)
    \/ \E id \in (-MaxLoads)..MaxLoads : LoadFinishes(id)
    \/ \E res \in resources, ok \in BOOLEAN : ResourceSettles(res, ok)
    \/ \E href \in cssFetches, ok \in BOOLEAN : CssTextFetched(href, ok)

Settling ==
    \/ \E id \in (-MaxLoads)..MaxLoads, r \in Responses : FetchSettles(id, r)
    \/ \E id \in (-MaxLoads)..MaxLoads : LoadFinishes(id)
    \/ \E res \in resources, ok \in BOOLEAN : ResourceSettles(res, ok)
    \/ \E href \in cssFetches, ok \in BOOLEAN : CssTextFetched(href, ok)

SpecCycle == InitCycle /\ [][NextCycle]_vars /\ WF_vars(Settling)

\* loads of the two files into the two targets whose fetches succeed and
\* whose continuations eventually run
NextTwin ==
    \/ \E sel \in Targets, path \in Paths : LoadComponent(sel, path, EmptyMap)
    \/ \E id \in DOMAIN loads : FetchSettles(id, "ok")
    \/ \E id \in DOMAIN loads : LoadFinishes(id)
    \/ ClearFileCache

TwinSettling ==
    \/ \E id \in DOMAIN loads : FetchSettles(id, "ok")
    \/ \E id \in DOMAIN loads : LoadFinishes(id)

SpecTwin == InitTargets /\ [][NextTwin]_vars /\ WF_vars(TwinSettling)









(***************************************************************************)
(* The claims.                                                             *)
(***************************************************************************)
\* the value a is identical to the value b (===)
Identical(a, b) == a = b /\ a.t # "NaN"
DepValues(c) == [i \in DOMAIN computedDeps[c] |-> get(states, computedDeps[c][i])]
Created(name) == name \in DOMAIN listeners
Reenters(cbs) == \E i \in DOMAIN cbs : cbs[i].kind = "setter"
CallsOf(cb) == {i \in DOMAIN obs.calls : obs.calls[i].cb = cb /\ obs.calls[i].name = obs.name}
ChangingSet == obs.op = "set" /\ ~Identical(obs.old, obs.value)

\* C1: once computed(c, deps, fn) is registered over created names, the value
\* of c is fn of the current values of deps, right after the registration
\* and after every later set of a name listed in deps.
C1_ComputedFollowsDeps ==
    \A c \in DOMAIN computedDeps :
        (/\ \A i \in DOMAIN computedDeps[c] : Created(computedDeps[c][i])
         /\ \/ obs.op = "computed" /\ obs.name = c
            \/ obs.op = "set" /\ obs.name \in Range(computedDeps[c]))
        => get(states, c) = ApplyFn(fnOf[c], DepValues(c))

\* C2: set(name, v) with v identical to the stored value is a no-op: no
\* subscriber is invoked, no computed entry is recomputed, no binding is
\* pushed, the stored value and the page stay as they are, nothing is thrown.
C2_IdenticalSetIsNoOp ==
    [][(obs'.op = "set" /\ Identical(get(states, obs'.name), obs'.value))
        => /\ obs'.calls = <<>>
           /\ ~obs'.threw
           /\ UNCHANGED <<states, listeners, computedDeps, dataBindings, elProp,
                          bindCount, content, componentLoaded>>]_vars

\* C2 witness: an identical set on a created name that has a subscriber, a
\* binding and a computed entry depending on it.
C2_Witness ==
    /\ obs.op = "set"
    /\ Identical(obs.old, obs.value)
    /\ Created(obs.name)
    /\ Recorder \in Range(listeners[obs.name])
    /\ \E b \in Range(allBindings(1)) : b.state = obs.name
    /\ \E c \in DOMAIN computedDeps : obs.name \in Range(computedDeps[c])

\* what C3 says of a set that changes the value of a created name: every
\* subscriber was invoked exactly once, with (new, old), and the new value is
\* the stored one
EachSubscriberOnce ==
    /\ \A cb \in Range(obs.subs) :
          /\ Cardinality(CallsOf(cb)) = 1
          /\ \A i \in CallsOf(cb) :
                obs.calls[i].new = obs.value /\ obs.calls[i].old = obs.old
    /\ get(states, obs.name) = obs.value

C4_ThrowingSubscriberContained ==
    (ChangingSet /\ Thrower \in Range(obs.subs) /\ ~Reenters(obs.subs))
    => /\ ~obs.threw
       /\ get(states, obs.name) = obs.value
       /\ \A cb \in Range(obs.subs) : CallsOf(cb) # {}
       /\ \A c \in DOMAIN computedDeps :
             obs.name \in Range(computedDeps[c])
             => get(states, c) = ApplyFn(fnOf[c], DepValues(c))

\* C5: set(name, v) or subscribe(name, cb) on a name that was never created
\* (nor registered as computed) brings no entry into existence: get(name) is
\* undefined afterwards.
C5_NeverAutoVivified ==
    (/\ obs.op \in {"set", "subscribe"}
     /\ ~Created(obs.name)
     /\ obs.name \notin DOMAIN computedDeps)
    => get(states, obs.name) = Undefined

\* C6: for each of the five binding kinds and a created name holding a
\* number, bind pushes the number into the element at once, and every later
\* set of a number the name does not hold completes normally and leaves the
\* bound property equal to it.
C6_BindingsFollowSet ==
    /\ (/\ obs.op = "bind" /\ obs.el \in Range(BElems)
        /\ Created(obs.name) /\ get(states, obs.name).t = "number")
       => elProp[obs.el][obs.prop] = NumStr(get(states, obs.name).n)
    /\ (ChangingSet /\ Created(obs.name) /\ obs.value.t = "number")
       => \A b \in Range(allBindings(1)) :
             b.state = obs.name
             => ~obs.threw /\ elProp[b.el][b.property] = NumStr(obs.value.n)

\* C7: create(name, initial) on a name that exists raises no error, stores
\* initial, leaves the name with an empty subscriber set and invokes no
\* subscriber; a set invokes only callbacks that are subscribed at that time,
\* so none from before the re-create.
C7_RecreateResets ==
    /\ obs.op = "create"
       => /\ ~obs.threw
          /\ get(states, obs.name) = obs.value
          /\ Created(obs.name) /\ listeners[obs.name] = <<>>
          /\ obs.calls = <<>>
    /\ obs.op = "set"
       => \A i \in DOMAIN obs.calls :
             /\ Created(obs.calls[i].name)
             /\ obs.calls[i].cb \in Range(listeners[obs.calls[i].name])

\* C7 witness: create on a name that existed and had subscribers.
C7_Witness ==
    /\ obs.op = "create"
    /\ obs.subs # <<>>
    /\ obs.old # Undefined
    /\ obs.old # obs.value

\* C8: with the file cache enabled, once a load of a path has fetched and
\* stored it, every later load of the path before a clear fetches nothing
\* and fulfils with what the first load fulfilled with.
C8_CachedPathNotFetchedAgain ==
    /\ (lobs.step = "call" /\ lobs.wasWarm /\ lobs.promise = "pending")
       => ~lobs.fetched
    /\ (lobs.step = "done" /\ lobs.wasWarm) => lobs.value = warm[lobs.path]

\* C9: the file cache holds the raw text of a path and every load expands it
\* with its own props: a load served from the cache writes the text of the
\* path expanded with the props of that load.
C9_CacheHitExpandsOwnProps ==
    (lobs.step = "call" /\ lobs.hit /\ lobs.promise = "pending")
    => content[lobs.target] =
           processTemplate(server[lobs.path], loads[lobs.id].props, EmptyMap)

\* C10: a load of a path that is in the guard set, into an element that
\* exists, returns a fulfilled promise at once: no fetch, no write, no hook,
\* guard set and file cache unchanged.
C10_GuardedLoadDoesNothing ==
    [][(/\ lobs'.step = "call"
        /\ nextId' = nextId + 1
        /\ lobs'.target \in Targets
        /\ lobs'.path \in loadingComponents)
        => /\ lobs'.promise = "fulfilled"
           /\ ~lobs'.fetched
           /\ lobs'.fired = <<>>
           /\ UNCHANGED <<loads, content, componentLoaded, loadingComponents,
                          fileCache>>]_vars

\* C10 witness: a call for a path with hooks that found the path in the guard
\* set, while the first load of the path waits for its fetch.
C10_Witness ==
    /\ lobs.step = "call"
    /\ lobs.promise = "fulfilled"
    /\ lobs.path = "p1"
    /\ \E id \in DOMAIN loads : loads[id].path = lobs.path /\ loads[id].phase = "fetch"

\* C11: a path is in the guard set only while a load of it is in flight, so
\* the guard set is empty whenever no load is in flight.
C11_GuardOnlyWhileLoading ==
    \A p \in loadingComponents : \E id \in DOMAIN loads : loads[id].path = p

C13_ScriptsEvaluatedOnce ==
    \A i, j \in DOMAIN sobs.scripts : sobs.scripts[i] = sobs.scripts[j] => i = j

\* a nested component of a load (reported under the negated id of the load)
\* or a nested stylesheet or script of a load has just failed
NestedFailureOf(id) ==
    /\ lobs' # lobs
    /\ lobs'.promise = "rejected"
    /\ \/ lobs'.step = "failed" /\ lobs'.id = -id
       \/ lobs'.step \in {"css", "js"} /\ lobs'.id = id

\* C14: the failure of a nested stylesheet, script or component of a load
\* leaves the load waiting for its other nested resources and leaves the
\* markup of its target as it is; a load whose markup has been written ends
\* only by fulfilling.
C14_NestedFailureContained ==
    [][\A id \in 1..(MaxLoads + 1) :
          (id \in DOMAIN loads /\ loads[id].phase = "nested")
          => /\ NestedFailureOf(id)
                => /\ id \in DOMAIN loads'
                   /\ loads'[id].phase = "nested"
                   /\ content' = content
             /\ id \notin DOMAIN loads'
                => /\ lobs'.step = "done" /\ lobs'.id = id
                   /\ lobs'.promise = "fulfilled"
                   /\ content' = content]_vars

\* C14 witness: a load of p1 has fulfilled with its markup in the target,
\* after the component nested in it failed to load.
C14_Witness ==
    /\ lobs.step = "done"
    /\ lobs.id > 0
    /\ lobs.promise = "fulfilled"
    /\ content[lobs.target] = server["p1"]
    /\ inner[lobs.target] =
          <<Text("Component Load Error: p2 HTTP 404: Not Found")>>

\* the build of the last step was of a definition and target whose markup
\* the page cache holds: an earlier build of them has settled, and the cache
\* was not cleared since
BuiltBefore ==
    /\ bobs.step = "build"
    /\ bobs.target \in Targets
    /\ bobs.key \in DOMAIN storedBy
    /\ storedBy[bobs.key] = <<bobs.d, bobs.target>>

\* C15: building the same definition into the same target again, after the
\* first build has settled, with the page cache on and not cleared in
\* between, writes the cached markup and processes nothing: no loader call,
\* no fetch, and the target holds what the first build left.
C15_SecondBuildFromPageCache ==
    BuiltBefore
    => /\ bobs.hit
       /\ bobs.started = <<>>
       /\ bobs.promise = "fulfilled"
       /\ bobs.html = pageCache.cache[bobs.key]

\* C16: the page-cache key of a build is the explicit key when one is given,
\* else it is derived from the serialized definition and the target, so that
\* a build of a definition into one target never uses the cache entry that a
\* build of the same definition into another target has stored.
C16_KeyFromDefinitionAndTarget ==
    (bobs.step = "build" /\ bobs.target \in Targets)
    => /\ PageDefs[bobs.d].cacheKey # "" => bobs.key = Chars(PageDefs[bobs.d].cacheKey)
       /\ (/\ PageDefs[bobs.d].cacheKey = ""
           /\ bobs.key \in DOMAIN storedBy
           /\ storedBy[bobs.key][1] = bobs.d)
          => storedBy[bobs.key][2] = bobs.target

\* the markup html holds the markup part
Contains(html, part) ==
    \E i \in 0..Len(html) :
        i + Len(part) <= Len(html) /\ SubSeq(html, i + 1, i + Len(part)) = part
\* the definition is a list of two or more component paths
PathList(pageDef) ==
    /\ Len(pageDef.components) >= 2
    /\ \A i \in DOMAIN pageDef.components : pageDef.components[i].str

\* C17: when a build of a list of two or more component paths into one target
\* has settled with every load fulfilled, the target holds the markup of every
\* listed component, in whatever order the fetches completed.
C17_PageHoldsEveryComponent ==
    (/\ bobs.step = "built"
     /\ PathList(PageDefs[bobs.d])
     /\ \A i \in DOMAIN bobs.results : bobs.results[i] = "fulfilled")
    => \A i \in DOMAIN PageDefs[bobs.d].components :
          Contains(bobs.html,
                   processTemplate(server[PageDefs[bobs.d].components[i].name],
                                   EmptyMap, EmptyMap))

\* the condition of an object definition is false, or a predicate that
\* returns false
Falsy(comp) == ~comp.str /\ comp.condition \in {"false", "predFalse"}
LoadsOf(b, i) == {id \in DOMAIN loads : loads[id].owner.b = b /\ loads[id].owner.i = i}

\* C18: a definition whose condition is falsy is never loaded and its
\* children are never processed: no loader call is made for it, no load of it
\* or of a child is ever in flight, its promise is fulfilled at once; the
\* loader is called for each of its siblings.
C18_FalsyConditionSkipsDefinition ==
    /\ \A b \in DOMAIN builds : \A i \in DOMAIN builds[b].slots :
          Falsy(PageDefs[builds[b].d].components[i])
          => builds[b].slots[i].state = "fulfilled" /\ LoadsOf(b, i) = {}
    /\ (bobs.step = "build" /\ bobs.promise = "pending")
       => \A i \in DOMAIN PageDefs[bobs.d].components :
             Falsy(PageDefs[bobs.d].components[i])
             <=> ~\E k \in DOMAIN bobs.started : bobs.started[k].i = i
    /\ bobs.step = "children"
       => \A k \in DOMAIN bobs.started :
             ~Falsy(PageDefs[bobs.d].components[bobs.started[k].i])

\* C18 witness: a build of a path between two definitions with a falsy
\* condition has settled: the path is in the file cache, the path of the
\* skipped definitions and of the child is not.
C18_Witness ==
    /\ bobs.step = "built"
    /\ \E i \in DOMAIN PageDefs[bobs.d].components :
          Falsy(PageDefs[bobs.d].components[i]) /\ PageDefs[bobs.d].components[i].children # <<>>
    /\ bobs.results = <<"fulfilled", "fulfilled", "fulfilled">>
    /\ DOMAIN fileCache.cache = {"p1"}

\* C19: the children of an object definition are processed only after the
\* markup of the parent has been written into its element: whenever the
\* loader is called for the children, the load of the parent has written.
C19_ChildrenAfterParentMarkup ==
    bobs.step = "children" => bobs.committed

\* C20: buildPage joins on all its definitions: a build that is not served
\* from the page cache calls the loader for every definition whose condition
\* holds and returns a promise, whatever becomes of the others; that promise
\* fulfils with one result per definition; and the page cache takes the
\* markup of the target only in the step that finds every definition settled.
C20_BuildJoinsOnAllDefinitions ==
    [][/\ (bobs'.step = "build" /\ bobs' # bobs /\ bobs'.target \in Targets /\ ~bobs'.hit)
          => /\ bobs'.promise = "pending"
             /\ \A i \in DOMAIN PageDefs[bobs'.d].components :
                   Falsy(PageDefs[bobs'.d].components[i])
                   \/ \E k \in DOMAIN bobs'.started : bobs'.started[k].i = i
       /\ (bobs'.step = "built" /\ bobs' # bobs)
          => /\ Len(bobs'.results) = Len(PageDefs[bobs'.d].components)
             /\ pageCache'.cache[bobs'.key] = content[bobs'.target]
       /\ (pageCache'.cache # pageCache.cache /\ pageCache'.cache # EmptyMap)
          => /\ bobs'.step = "built"
             /\ \A i \in DOMAIN builds[bobs'.b].slots : hasSettled(bobs'.b, i)
      ]_vars

\* the top-level loads in flight into a target
LoadsInto(t) == {id \in DOMAIN loads : loads[id].target = t /\ loads[id].parent = 0}

\* C21: when loads of different paths into one target overlap, the target
\* ends with the markup of the load that resolved last: once a load has
\* fulfilled, no other load into its target is in flight and no fetch has
\* failed, the target holds the markup that load fulfilled with.
C21_LastResolvedLoadWins ==
    (lobs.step = "done" /\ lobs.id > 0 /\ LoadsInto(lobs.target) = {} /\ failed = {})
    => content[lobs.target] = lobs.value

\* the last step reached a phase of the load of a path
PhaseReached(phase) ==
    \/ phase = "beforeLoad" /\ lobs.step = "call" /\ lobs.promise = "pending"
    \/ phase = "afterLoad" /\ lobs.step = "done"
    \/ phase = "onError" /\ lobs.step = "failed"
Hook(path, phase) == [path |-> path, phase |-> phase]

\* C22: a hook registered under the wildcard path for a phase is invoked for
\* every path that reaches the phase, along with the hooks registered for
\* that path.
C22_WildcardHooksFire ==
    \A phase \in Phases :
        PhaseReached(phase)
        => \A path \in {"*", lobs.path} :
              <<path, phase>> \in hooks => Hook(path, phase) \in Range(lobs.fired)


\* the listeners the dispatched event ran
Listeners == attached[eobs.element][eobs.type]
\* C23: when a declared event fires and no global function has the
\* handler's name, the failure is logged, no exception escapes the listener
\* and the event's default is suppressed; a handler that was defined after
\* the binding and before the event is found and called.
C23_MissingHandlerSuppressesDefault ==
    eobs.step = "dispatch"
    => \A i \in DOMAIN Listeners :
          /\ Listeners[i] \notin DOMAIN window
             => /\ Log("notFound", Listeners[i]) \in Range(eobs.logged)
                /\ ~eobs.escaped
                /\ eobs.prevented
          /\ Listeners[i] \in DOMAIN window => Listeners[i] \in Range(eobs.ran)
\* C24: for every element and every supported event type at most one
\* listener is attached, however often the handlers are bound (by a load,
\* by a nested load, by the binding of the whole page).
C24_AtMostOneListener ==
    \A e \in Elems, t \in supportedEvents : Len(attached[e][t]) <= 1
\* the page is bound again when the loaded, the nested and the static
\* element already have their listener
C24_Witness ==
    /\ eobs.step = "bind"
    /\ eobs.count = 0
    /\ \A e \in Elems : Len(attached[e]["click"]) = 1

\* C25: when props and state define the same key, the expansion of the
\* placeholder of that key is the string form of the props value.
C25_PropsWinOnCollision ==
    (/\ tobs.step = "expand"
     /\ ~tobs.threw
     /\ tobs.template = <<Text("a"), Var("name"), Var("other")>>
     /\ "name" \in DOMAIN tobs.props
     /\ "name" \in DOMAIN tobs.state)
    => tobs.result = <<Text("a" \o stringValue(tobs.props["name"])), Var("other")>>

\* the body X once for every truthy element
RECURSIVE KeptFor(_)
KeptFor(items) ==
    IF items = <<>> THEN ""
    ELSE (IF truthy(Head(items)) THEN "X" ELSE "") \o KeptFor(Tail(items))
AsMarkup(str) == IF str = "" THEN <<>> ELSE <<Text(str)>>
\* C26: a conditional inside a loop body is evaluated once per iteration
\* against the iteration's context: with the loop variable as its
\* condition it keeps the body for exactly the truthy elements.
C26_ConditionalPerIteration ==
    LET context == Context(tobs.props, tobs.state)
    IN (/\ tobs.step = "expand"
        /\ ~tobs.threw
        /\ tobs.template = <<EachOpen("items", "item"), IfOpen("item"), Text("X"),
                             IfClose, EachClose>>
        /\ "items" \in DOMAIN context
        /\ isArray(context["items"]))
       => tobs.result = AsMarkup(KeptFor(context["items"].items))

\* C27: for every context a conditional block expands to its body when its
\* expression is truthy and to the empty string when it is falsy or its
\* evaluation throws, and the expansion itself never throws.
C27_ConditionalExpands ==
    LET context == Context(tobs.props, tobs.state)
    IN (/\ tobs.step = "expand"
        /\ tobs.template = <<IfOpen("show"), Text("Y"), Var("name"), IfClose, Text("z")>>)
       => /\ ~tobs.threw
          /\ tobs.result =
                IF "show" \in DOMAIN context /\ truthy(context["show"])
                THEN IF "name" \in DOMAIN context
                     THEN <<Text("Y" \o stringValue(context["name"]) \o "z")>>
                     ELSE <<Text("Y"), Var("name"), Text("z")>>
                ELSE <<Text("z")>>

\* the copies of the body {{item}}:{{index}}; for the elements from the
\* i-th on
RECURSIVE Copies(_, _)
Copies(items, i) ==
    IF i > Len(items) THEN ""
    ELSE stringValue(items[i]) \o ":" \o NumStr(i - 1) \o ";" \o Copies(items, i + 1)
NoSyntax(template) == \A i \in DOMAIN template : template[i].k = "text"
\* C29: for every template with no recognized syntax and every context the
\* expansion returns the template unchanged.
C29_PlainTemplateUnchanged ==
    (tobs.step = "expand" /\ NoSyntax(tobs.template))
    => ~tobs.threw /\ tobs.result = tobs.template

\* a step that is a load call or a build call with a selector that matches
\* no element
MissingTargetCall ==
    \/ nextId' = nextId + 1 /\ lobs'.step = "call" /\ lobs'.target = "#missing"
    \/ nextBuild' = nextBuild + 1 /\ bobs'.step = "build" /\ bobs'.target = "#missing"
\* C30: a load or a build whose target selector matches no element rejects
\* its promise and changes nothing else: no fetch is issued and the file
\* cache, the page cache, the guard set and the document are as before.
C30_MissingTargetChangesNothing ==
    [][MissingTargetCall
       => /\ nextId' = nextId + 1 => lobs'.promise = "rejected" /\ ~lobs'.fetched
          /\ nextBuild' = nextBuild + 1 => bobs'.promise = "rejected" /\ bobs'.started = <<>>
          /\ UNCHANGED <<fileCache, pageCache, loadingComponents, loads, builds>>
          /\ UNCHANGED <<content, componentLoaded, inner, resources, cssLinks, jsLoaded,
                         cssFetches>>]_vars
\* a load and a build with a missing target have been rejected while both
\* caches held entries and a load was in flight
C30_Witness ==
    /\ lobs.step = "call" /\ lobs.target = "#missing" /\ lobs.promise = "rejected"
    /\ bobs.step = "build" /\ bobs.target = "#missing" /\ bobs.promise = "rejected"
    /\ fileCache.cache # EmptyMap
    /\ pageCache.cache # EmptyMap

\* C31: over any interleaving of loadJS(src) calls for one src the code of
\* the script is fetched and evaluated at most once: a script whose code
\* has just been evaluated had no data-loaded-js marker before.
C31_ScriptEvaluatedOnce ==
    [][(lobs'.step = "js" /\ lobs'.promise = "fulfilled" /\ resources' # resources)
       => lobs'.path \notin jsLoaded]_vars

FileCacheCalls == {"enableFileCache", "disableFileCache", "clearFileCache"}
PageCacheCalls == {"enable", "disable", "clear"}
\* C32: the file cache and the page cache are independent: enabling,
\* disabling or clearing one leaves the flag and the entries of the other
\* unchanged, and a build whose key the enabled page cache holds is served
\* from it without any fetch, whatever the file cache holds.
C32_CachesIndependent ==
    [][/\ (lobs' # lobs /\ lobs'.step \in FileCacheCalls) => pageCache' = pageCache
       /\ (bobs' # bobs /\ bobs'.step \in PageCacheCalls) => fileCache' = fileCache
       /\ (/\ nextBuild' = nextBuild + 1
           /\ pageCache.enabled
           /\ bobs'.key \in DOMAIN pageCache.cache
           /\ pageCache.cache[bobs'.key] # <<>>)
          => /\ bobs'.hit
             /\ bobs'.promise = "fulfilled"
             /\ loads' = loads
             /\ content'[bobs'.target] = pageCache.cache[bobs'.key]]_vars
\* a build is served from the page cache when the file cache, enabled, has
\* been emptied
C32_Witness ==
    /\ bobs.step = "build"
    /\ bobs.hit
    /\ loads = EmptyMap
    /\ fileCache.enabled
    /\ fileCache.cache = EmptyMap
    /\ failed = {}

\* the cache field of the page definition of the builder's last step
Override == AdvancedDefs[bobs'.d].cache
\* C33: the cache override of a page definition takes precedence over the
\* global flag in both directions: with the override false the build
\* neither reads nor writes the page cache although caching is enabled,
\* with the override true it reads and writes the page cache although
\* caching is disabled.
C33_OverrideTakesPrecedence ==
    [][/\ (nextBuild' = nextBuild + 1 /\ bobs'.step = "build" /\ Override = "false")
          => ~bobs'.hit
       /\ (bobs' # bobs /\ bobs'.step = "built" /\ Override = "false")
          => pageCache' = pageCache
       /\ (/\ nextBuild' = nextBuild + 1 /\ bobs'.step = "build" /\ Override = "true"
           /\ bobs'.key \in DOMAIN pageCache.cache
           /\ pageCache.cache[bobs'.key] # <<>>)
          => bobs'.hit /\ content'["#t1"] = pageCache.cache[bobs'.key]
       /\ (bobs' # bobs /\ bobs'.step = "built" /\ Override = "true")
          => /\ bobs'.key \in DOMAIN pageCache'.cache
             /\ pageCache'.cache[bobs'.key] = bobs'.html]_vars

\* C34: loads of a component whose markup names itself terminate: every
\* load settles, and from then on no load is in flight and the guard set
\* is empty.
C34_CyclicLoadsTerminate ==
    <>[](loads = EmptyMap /\ resources = {} /\ loadingComponents = {})

\* a load of a path into target t has been called while a load of the same
\* path into another target was in flight
SecondOfTwo(t) ==
    /\ lobs.step = "call"
    /\ lobs.target = t
    /\ \E id \in DOMAIN loads : loads[id].path = lobs.path /\ loads[id].target # t
\* no load is in flight and target t holds markup
SettledWithMarkup(t) == loads = EmptyMap /\ content[t] # <<>>
\* C35: when two loads of the same path into two different targets
\* overlap, both targets contain the component's markup once all loads
\* have settled.
C35_BothTargetsLoaded ==
    \A t \in Targets : SecondOfTwo(t) ~> SettledWithMarkup(t)

\* the notifications of the subscriber cb of the name that set was called
\* with, in the order in which they were delivered
Deliveries(cb) ==
    {i \in DOMAIN obs.calls : obs.calls[i].cb = cb /\ obs.calls[i].name = obs.name}
LastDelivered(cb) ==
    obs.calls[CHOOSE i \in Deliveries(cb) : \A j \in Deliveries(cb) : j <= i].new
\* C36: after set(name, v) has returned, the new value most recently
\* delivered to each subscriber of name equals get(name), also when a
\* subscriber calls set on the same name while it is notified.
C36_LastDeliveredIsCurrent ==
    obs.op = "set"
    => \A cb \in Range(obs.subs) :
          Deliveries(cb) # {} => LastDelivered(cb) = get(states, obs.name)

\* C37: two builds without an explicit cache key whose component lists
\* differ never share a page-cache entry: a build served from the page
\* cache gets markup that a build of the same component list stored.
C37_DifferentListsDifferentEntries ==
    (/\ bobs.step = "build"
     /\ bobs.hit
     /\ PageDefs[bobs.d].cacheKey = ""
     /\ bobs.key \in DOMAIN storedBy
     /\ PageDefs[storedBy[bobs.key][1]].cacheKey = "")
    => PageDefs[storedBy[bobs.key][1]].components = PageDefs[bobs.d].components

\* a load call that finds its element and is not suppressed by the guard
StartsLoad ==
    /\ nextId' = nextId + 1
    /\ lobs'.step = "call"
    /\ matches(lobs'.target)
    /\ ~guardHas(loadingComponents, lobs'.path)
\* the load id is in flight before the step and has ended after it
EndsLoad(id) == id \in DOMAIN loads /\ id \notin DOMAIN loads'
\* C38: for every load that is not suppressed by the guard the beforeLoad
\* hooks of its path fire in the call, before any fetch or write, and the
\* load is then in flight until it ends once, with the afterLoad hooks of
\* its path when it succeeds and with the onError hooks when it fails.
C38_HooksAroundEveryLoad ==
    [][/\ StartsLoad
          => /\ lobs'.fired = trigger(lobs'.path, "beforeLoad")
             /\ nextId' \in DOMAIN loads'
       /\ \A id \in DOMAIN loads :
             EndsLoad(id)
             => \/ /\ lobs'.promise = "fulfilled"
                   /\ lobs'.fired = trigger(loads[id].path, "afterLoad")
                \/ /\ lobs'.promise = "rejected"
                   /\ lobs'.fired = trigger(loads[id].path, "onError")]_vars

\* the path of the call is in the file cache, and it was stored there
\* before the last disableFileCache
CachedBeforeDisable ==
    /\ lobs'.path \in DOMAIN fileCache.cache
    /\ lobs'.path \notin DOMAIN warm
\* C39: disableFileCache does not discard entries: a step that flips the
\* flag leaves the entries as they are, while the file cache is disabled
\* every load fetches and no step of a load changes the entries, and once
\* it is enabled again a path that was cached before the disable is loaded
\* without a fetch.
C39_DisableKeepsEntries ==
    [][/\ fileCache'.enabled # fileCache.enabled => fileCache'.cache = fileCache.cache
       /\ (~fileCache.enabled /\ StartsLoad) => lobs'.fetched /\ ~lobs'.hit
       /\ (~fileCache.enabled /\ lobs'.step \in {"call", "fetched", "done", "failed"})
          => fileCache'.cache = fileCache.cache
       /\ (fileCache.enabled /\ StartsLoad /\ CachedBeforeDisable)
          => ~lobs'.fetched]_vars
====
